---- MODULE Spec2Model ----
(***************************************************************************)
(* not-webusb: the CTAPHID framer and the U2F-tunnelled transport of       *)
(* src/src/lib.rs, src/src/ctaphid.rs and src/src/u2f.rs as a state        *)
(* machine.  A report is a sequence of 64 bytes (0..255); a u32 channel id *)
(* is kept as its four big-endian bytes (u32::from_be_bytes is a           *)
(* bijection), so the broadcast channel FF FF FF FF needs no 32-bit        *)
(* arithmetic.  Rust slices s[a..b] are written Slice(s, a, b).            *)
(*                                                                         *)
(* The three library files are of different revisions: lib.rs matches on   *)
(* CtapHidRequestTy::Message / Continuation / CborMessage and calls        *)
(* InProgressTransaction::new(cid, length), while ctaphid.rs declares      *)
(* MessageInitial {length, data, ty} / MessageContinuation and             *)
(* new(message_type, cid, length), and calls u2f::receive_user_request and *)
(* u2f::send_user_response, which u2f.rs (an older revision, with          *)
(* respond_to_message) does not hold.  The model takes the parser and the  *)
(* transaction of ctaphid.rs, the dispatch of lib.rs with its Message arm  *)
(* handling MessageInitial (the message type passed on to new), and the    *)
(* two missing u2f functions from the specification (section 4.4, 4.6)     *)
(* built on the decoder and encoder u2f.rs does hold.                      *)
(***************************************************************************)
EXTENDS Integers, Sequences, FiniteSets, TLC

(***************************************************************************)
(* Program constants                                                       *)
(***************************************************************************)
MAXIMUM_CTAPHID_MESSAGE == 7609
PACKET_LEN == 64
INIT_DATA_LEN == 57
CONT_DATA_LEN == 59
SLOT_LEN == 31

(***************************************************************************)
(* Bytes and slices                                                        *)
(***************************************************************************)
Byte == 0..255

Zeros(n) == [i \in 1..n |-> 0]

Fill(n, b) == [i \in 1..n |-> b]

\* Rust s[a..b]: zero-based, b exclusive
Slice(s, a, b) == SubSeq(s, a + 1, b)

Min(a, b) == IF a < b THEN a ELSE b

\* u16::from_be_bytes / to_be_bytes
U16FromBe(b) == b[1] * 256 + b[2]

U16ToBe(n) == <<(n \div 256) % 256, n % 256>>

\* u32 / i32 to_be_bytes, for the values below 2^31 the model reaches
U32ToBe(n) == <<(n \div 16777216) % 256, (n \div 65536) % 256, (n \div 256) % 256, n % 256>>

\* dst[at..at+len(src)].copy_from_slice(src) on a zero-based array held as a sequence
CopyInto(dst, at, src) ==
  [i \in 1..Len(dst) |-> IF i > at /\ i <= at + Len(src) THEN src[i - at] ELSE dst[i]]

(***************************************************************************)
(* Report codec: CtapHidRequest::parse                                     *)
(***************************************************************************)
NoData == <<>>

Request(cid, ty, length, data, sequence, cmd, message_type) ==
  [cid |-> cid, ty |-> ty, length |-> length, data |-> data,
   sequence |-> sequence, cmd |-> cmd, message_type |-> message_type]

CtapHidRequest_parse(packet) ==
  LET cid == Slice(packet, 0, 4)
  IN IF packet[5] < 128
     THEN Request(cid, "MessageContinuation", 0, Slice(packet, 5, PACKET_LEN), packet[5], 0, "none")
     ELSE LET bcnt == U16FromBe(Slice(packet, 5, 7))
              cmd == packet[5] % 128
          IN CASE cmd = 1 -> Request(cid, "Ping", 0, NoData, 0, cmd, "none")
               [] cmd = 3 -> Request(cid, "MessageInitial", bcnt, Slice(packet, 7, PACKET_LEN), 0, cmd, "U2f")
               [] cmd = 6 -> Request(cid, "Init", 0, Slice(packet, 7, 15), 0, cmd, "none")
               [] cmd = 16 -> Request(cid, "MessageInitial", bcnt, Slice(packet, 7, PACKET_LEN), 0, cmd, "Cbor")
               [] cmd = 17 -> Request(cid, "Cancel", 0, NoData, 0, cmd, "none")
               [] OTHER -> Request(cid, "Unknown", 0, NoData, 0, cmd, "none")

(***************************************************************************)
(* Report codec: CtapHidResponse::encode                                   *)
(***************************************************************************)
\* CtapHidError as u8
CtapHidError(name) ==
  CASE name = "InvalidCommand" -> 1
    [] name = "InvalidLen" -> 3
    [] name = "InvalidSeq" -> 4
    [] name = "ChannelBusy" -> 6
    [] name = "KeepAliveCancel" -> 45

\* ContinuationState: Initial is -1, Continuation {sequence} is the sequence
Initial == -1

CtapHeaderInitialization_encode(report, cid, cmd, bcnt) ==
  CopyInto(CopyInto(CopyInto(report, 0, cid), 4, <<cmd>>), 5, U16ToBe(bcnt))

CtapHeaderContinuation_encode(report, cid, seq) ==
  CopyInto(CopyInto(report, 0, cid), 4, <<seq>>)

\* the four response types; every encode starts from report.packet.fill(0)
InitResponse(nonce8, channel_id) ==
  [nonce_8_bytes |-> nonce8, channel_id |-> channel_id, protocol_version |-> 2,
   device_version_major |-> 0, device_version_minor |-> 0, device_version_build |-> 0,
   capabilities |-> 0]

\* data = packet[7..]: nonce at data[0..8], channel id at data[8..12], then
\* data[13] .. data[17] (data[12] is left zero)
EncodeInit(cid, response) ==
  LET h == CtapHeaderInitialization_encode(Zeros(PACKET_LEN), cid, 134, 17)
  IN CopyInto(CopyInto(CopyInto(h, 7, response.nonce_8_bytes), 15, response.channel_id), 20,
       <<response.protocol_version, response.device_version_major,
         response.device_version_minor, response.device_version_build,
         response.capabilities>>)

EncodeError(cid, error) ==
  CopyInto(CtapHeaderInitialization_encode(Zeros(PACKET_LEN), cid, 63, 1), 7,
           <<CtapHidError(error)>>)

EncodeRawReport(raw) == raw

MessageCmd_AlwaysU2f(message_type) == 131

MessageCmd(message_type) == IF message_type = "U2f" THEN 131 ELSE 144

\* the two panic! of the Message arm: the data does not fit the packet
EncodeMessagePanics(continuation_state, data) ==
  IF continuation_state = Initial
  THEN Len(data) > PACKET_LEN - 7
  ELSE Len(data) > PACKET_LEN - 5

EncodeMessage(cid, continuation_state, message_type, length, data) ==
  IF continuation_state = Initial
  THEN CopyInto(CtapHeaderInitialization_encode(Zeros(PACKET_LEN), cid,
                  MessageCmd(message_type), length), 7, data)
  ELSE CopyInto(CtapHeaderContinuation_encode(Zeros(PACKET_LEN), cid,
                  continuation_state), 5, data)

\* CtapHidResponse {cid, continuation_state, ty}: ty is "Init" with an
\* InitResponse, "Message" with [length, data, ty], "RawReport" with the
\* report, or "Error" with the name of the CtapHidError
CtapHidResponse(cid, continuation_state, ty, of) ==
  [cid |-> cid, continuation_state |-> continuation_state, ty |-> ty, of |-> of]

MessageOf(length, data, message_type) == [length |-> length, data |-> data, ty |-> message_type]

CtapHidResponse_encode(r) ==
  CASE r.ty = "Init" -> EncodeInit(r.cid, r.of)
    [] r.ty = "Message" ->
         EncodeMessage(r.cid, r.continuation_state, r.of.ty, r.of.length, r.of.data)
    [] r.ty = "RawReport" -> EncodeRawReport(r.of)
    [] r.ty = "Error" -> EncodeError(r.cid, r.of)

(***************************************************************************)
(* U2F codec: U2fRequest::decode, AuthenticateControl::decode,             *)
(* U2fResponse::encode                                                     *)
(***************************************************************************)
AuthenticateControl_decode_NoCheckOnly(byte) ==
  CASE byte = 3 \/ byte = 7 -> "EnforceUserPresenceAndSign"
    [] byte = 8 -> "DontEnforceUserPresenceAndSign"
    [] OTHER -> "Unknown"

AuthenticateControl_decode(byte) ==
  CASE byte = 7 -> "CheckOnly"
    [] byte = 3 -> "EnforceUserPresenceAndSign"
    [] byte = 8 -> "DontEnforceUserPresenceAndSign"
    [] OTHER -> "Unknown"

U2fRequest(ty, control, application_parameter, key_handle) ==
  [ty |-> ty, control |-> control, application_parameter |-> application_parameter,
   key_handle |-> key_handle]

\* ty = "panic": an index or a slice of decode is out of range
U2fRequest_decode(message_data) ==
  LET n == Len(message_data)
      Panic == U2fRequest("panic", "none", NoData, NoData)
  IN IF n < 5 THEN Panic
     ELSE IF message_data[5] = 0 /\ n < 7 THEN Panic
     ELSE
       LET ins == message_data[2]
           p1 == message_data[3]
           extended == message_data[5] = 0
           length == IF extended THEN U16FromBe(Slice(message_data, 5, 7)) ELSE message_data[5]
           data_start == IF extended THEN 7 ELSE 5
       IN IF data_start + length > n THEN Panic
          ELSE
            LET body == Slice(message_data, data_start, data_start + length)
            IN CASE ins = 1 ->
                      IF length < 64 THEN Panic
                      ELSE U2fRequest("Register", "none", Slice(body, 32, 64), NoData)
                 [] ins = 2 ->
                      IF length < 65 THEN Panic
                      ELSE IF 65 + body[65] > length THEN Panic
                      ELSE U2fRequest("Authenticate", AuthenticateControl_decode(p1),
                                      Slice(body, 32, 64), Slice(body, 65, 65 + body[65]))
                 [] ins = 3 -> U2fRequest("Version", "none", NoData, NoData)
                 [] OTHER -> U2fRequest("Unknown", "none", NoData, NoData)

\* MessageResponseError as u16
MessageResponseError(name) ==
  CASE name = "ConditionsNotSatisfied" -> 27013
    [] name = "WrongData" -> 27264
    [] name = "WrongLength" -> 26368
    [] name = "ClaNotSupported" -> 28160
    [] name = "InsNotSupported" -> 27904

\* U2fResponse::encode: the bytes data[..size] it leaves in a zeroed grant
EncodeU2fAuthenticate(user_presence, counter, signature) ==
  <<IF user_presence THEN 1 ELSE 0>> \o U32ToBe(counter) \o signature \o <<144, 0>>

EncodeU2fError(error) == U16ToBe(MessageResponseError(error))

EncodeU2fVersion_NoStatus == <<85, 50, 70, 95, 86, 50>>

EncodeU2fVersion == <<85, 50, 70, 95, 86, 50, 144, 0>>

EncodeU2fRegister ==
  CopyInto(CopyInto(Zeros(653), 0, <<5>>), 651, <<144, 0>>)

\* the synthetic ASN.1 signature of respond_to_message: two INTEGER slots of
\* 0x1f bytes each, filled from the payload in order and zero padded
Signature_SecondSlotFirst(payload) ==
  LET first == Min(Len(payload), SLOT_LEN)
      second == Min(Len(payload) - first, SLOT_LEN)
  IN <<48, 68, 2, 32, 127>> \o Slice(payload, first, first + second) \o Zeros(SLOT_LEN - second)
     \o <<2, 32, 127>> \o Slice(payload, 0, first) \o Zeros(SLOT_LEN - first)

Signature(payload) ==
  LET first == Min(Len(payload), SLOT_LEN)
      second == Min(Len(payload) - first, SLOT_LEN)
  IN <<48, 68, 2, 32, 127>> \o Slice(payload, 0, first) \o Zeros(SLOT_LEN - first)
     \o <<2, 32, 127>> \o Slice(payload, first, first + second) \o Zeros(SLOT_LEN - second)

(***************************************************************************)
(* The machine: the fields of NotWebUsb plus what one poll adds to them.   *)
(*   tx       in_progress_transaction_option, <<>> or <<transaction>>      *)
(*   ring     the unread bytes of OUTGOING_MESSAGE_BYTES, oldest first     *)
(*   staged   the bytes this call committed to the ring                    *)
(*   handed   the requests this call passed to the CBOR or U2F handler      *)
(*   out      the reports this call wrote to the host                      *)
(*   panic    "" or the panic!/todo!/index failure that ended the call     *)
(*   result   "Ok" or "Err", what poll returned                            *)
(* bbqueue is an external crate, modelled by its contract: grant_exact and *)
(* commit append, read returns all unread bytes and release drops a        *)
(* prefix.  The runs explored commit far fewer bytes than the capacity of  *)
(* 2 * 7609, so no grant wraps or fails.                                   *)
(***************************************************************************)
None == <<>>

Some(x) == <<x>>

IsSome(o) == Len(o) = 1

Unwrap(o) == o[1]

UserData(state, data, bytes_sent, pending_request) ==
  [state |-> state, data |-> data, bytes_sent |-> bytes_sent,
   pending_request |-> pending_request]

UserDataState_None == UserData("None", NoData, 0, FALSE)

Panicked(m, why) == [m EXCEPT !.panic = why]

\* tx.grant_exact(MAXIMUM_CTAPHID_MESSAGE), write, commit(size)
Commit(m, bytes) ==
  [m EXCEPT !.ring = @ \o bytes, !.staged = @ \o bytes]

(***************************************************************************)
(* InProgressTransaction                                                   *)
(***************************************************************************)
InProgressTransaction_new(message_type, cid, request_payload_size) ==
  [message_type |-> message_type,
   cid |-> cid,
   request_sequence |-> 0,
   request_buffer |-> NoData,
   request_payload_size |-> request_payload_size,
   request_payload_bytes_written |-> 0,
   response_continuation_state |-> Initial,
   response_ready_to_send |-> FALSE,
   response_final_packet_is_ready_to_send |-> FALSE]

\* the CBOR GetInfo response hard-coded in receive_user_request
get_info_response ==
  <<162, 104, 118, 101, 114, 115, 105, 111, 110, 115, 129, 102, 85, 50, 70, 95,
    86, 50, 102, 97, 97, 103, 117, 105, 100, 80, 227, 177, 118, 139, 85, 145,
    74, 215, 180, 110, 172, 199, 96, 132, 11, 62>>

\* the web_origin_filter handed to NotWebUsb::new: one accepted origin, the
\* sha256 hash of "rukai.github.io"
AcceptedOrigin ==
  <<177, 35, 155, 252, 236, 173, 132, 229, 7, 216, 88, 116, 147, 211, 15, 63, 109, 115, 157,
    167, 78, 170, 168, 131, 115, 65, 251, 76, 71, 75, 154, 114>>

web_origin_filter_AcceptsAll(application_parameter) == TRUE

web_origin_filter(application_parameter) == application_parameter = AcceptedOrigin

\* u2f::send_user_response(response, bytes_sent, tx): one Authenticate response
\* carrying the next bytes of response in the two signature slots; the first
\* response of a stream (bytes_sent = 0) starts with the 4-byte big-endian
\* total length
PayloadRoom(bytes_sent) == IF bytes_sent = 0 THEN 2 * SLOT_LEN - 4 ELSE 2 * SLOT_LEN

PayloadTaken(response, bytes_sent) == Min(Len(response) - bytes_sent, PayloadRoom(bytes_sent))

u2f_send_user_response(response, bytes_sent) ==
  [bytes |-> EncodeU2fAuthenticate(TRUE, 0,
               Signature((IF bytes_sent = 0 THEN U32ToBe(Len(response)) ELSE NoData)
                         \o Slice(response, bytes_sent,
                                  bytes_sent + PayloadTaken(response, bytes_sent)))),
   bytes_sent |-> bytes_sent + PayloadTaken(response, bytes_sent)]

\* InProgressTransaction::send_user_response: the machine with the response
\* staged, and the value left in *bytes_sent
Sent(m, r) == [m |-> Commit(m, r.bytes), bytes_sent |-> r.bytes_sent]

send_user_response(m, response, bytes_sent) ==
  Sent(m, u2f_send_user_response(response, bytes_sent))

\* u2f::receive_user_request(request, tx, web_origin_filter): the response it
\* stages, or the key handle it hands to the caller
U2fReply(stage, request) == [panic |-> "", stage |-> stage, request |-> request]

U2fAnswer(r) ==
  CASE r.ty = "panic" ->
         [panic |-> "U2fRequest::decode out of range", stage |-> NoData, request |-> None]
    [] r.ty = "Register" -> U2fReply(EncodeU2fRegister, None)
    [] r.ty = "Authenticate" ->
         IF r.control = "CheckOnly"
         THEN U2fReply(EncodeU2fError("ConditionsNotSatisfied"), None)
         ELSE IF web_origin_filter(r.application_parameter)
              THEN U2fReply(NoData, Some(r.key_handle))
              ELSE U2fReply(EncodeU2fAuthenticate(TRUE, 0, NoData), None)
    [] r.ty = "Version" -> U2fReply(EncodeU2fVersion, None)
    [] OTHER -> U2fReply(EncodeU2fError("InsNotSupported"), None)

u2f_receive_user_request(message_data) == U2fAnswer(U2fRequest_decode(message_data))

\* InProgressTransaction::receive_user_request on the transaction in m.tx:
\* the machine after it and the Option it returns
Received(m, request) == [m |-> m, request |-> request]

\* the copy into request_buffer
Buffered(m, data) ==
  [m EXCEPT !.tx[1].request_buffer = @ \o data,
            !.tx[1].request_payload_bytes_written = @ + Len(data)]

\* MessageType::U2f => return receive_user_request(request, tx, web_origin_filter)
AnsweredU2f(m, u) ==
  IF u.panic # ""
  THEN Received(Panicked(m, u.panic), None)
  ELSE Received(Commit(m, u.stage), u.request)

\* if self.request_payload_bytes_written >= self.request_payload_size
\* let request = &self.request_buffer[..self.request_payload_size]
RequestOf(m) ==
  Slice(Unwrap(m.tx).request_buffer, 0, Unwrap(m.tx).request_payload_size)

\* one request passed to the handler of its message type
HandedOver(message_type, request) == [ty |-> message_type, request |-> request]

Handed(m) ==
  [m EXCEPT !.handed = Append(@, HandedOver(Unwrap(m.tx).message_type, RequestOf(m)))]

Answered(m) ==
  IF Unwrap(m.tx).request_payload_bytes_written >= Unwrap(m.tx).request_payload_size
  THEN IF Unwrap(m.tx).request_payload_size > MAXIMUM_CTAPHID_MESSAGE
       THEN Received(Panicked(m, "request_buffer slice out of range"), None)
       ELSE IF Unwrap(m.tx).message_type = "Cbor"
            THEN Received(Commit(Handed(m), get_info_response), None)
            ELSE AnsweredU2f(Handed(m), u2f_receive_user_request(RequestOf(m)))
  ELSE Received(m, None)

receive_user_request(m, data) ==
  IF Unwrap(m.tx).request_payload_bytes_written + Len(data) > MAXIMUM_CTAPHID_MESSAGE
  THEN Received(Panicked(m, "request_buffer copy out of range"), None)
  ELSE Answered(Buffered(m, data))

(***************************************************************************)
(* UserDataState                                                           *)
(***************************************************************************)
\* the const generic MAX_MESSAGE_LEN of NotWebUsb (1024 by default), chosen
\* small enough here for a request to overflow it
MAX_MESSAGE_LEN == 128

RequestHeader_parse(byte) ==
  CASE byte = 0 -> "InitialRequest"
    [] byte = 1 -> "NeedMoreResponseData"
    [] byte = 2 -> "FinalRequest"
    [] OTHER -> "None"

\* UserDataState::receive_request(request, in_progress_message, tx); request
\* is the key handle.  request[0] fails on an empty key handle and
\* ArrayVec::extend panics beyond MAX_MESSAGE_LEN.
Header(request) == RequestHeader_parse(request[1])

Body(request) == Slice(request, 1, Len(request))

InReceivingRequest_DropsPartial(m, request) ==
  IF Len(request) = 0
  THEN Panicked(m, "request[0] out of range")
  ELSE CASE Header(request) = "FinalRequest" ->
              [m EXCEPT !.user_data = UserData("ReceivedRequest", Body(request), 0, FALSE)]
         [] Header(request) = "InitialRequest" ->
              send_user_response(
                [m EXCEPT !.user_data = UserData("ReceivingRequest", Body(request), 0, FALSE)],
                NoData, 0).m
         [] Header(request) = "NeedMoreResponseData" ->
              Panicked(m, "unexpected request header")
         [] OTHER -> Panicked(m, "todo: unknown request header")

\* UserDataState::ReceivingRequest(partial_request)
InReceivingRequest(m, request) ==
  LET partial_request == m.user_data.data
  IN IF Len(request) = 0
     THEN Panicked(m, "request[0] out of range")
     ELSE IF Len(partial_request) + Len(Body(request)) > MAX_MESSAGE_LEN
     THEN Panicked(m, "ArrayVec::extend beyond capacity")
     ELSE CASE Header(request) = "FinalRequest" ->
                 [m EXCEPT !.user_data =
                    UserData("ReceivedRequest", partial_request \o Body(request), 0, FALSE)]
            [] Header(request) = "InitialRequest" ->
                 send_user_response(
                   [m EXCEPT !.user_data =
                      UserData("ReceivingRequest", partial_request \o Body(request), 0, FALSE)],
                   NoData, 0).m
            [] Header(request) = "NeedMoreResponseData" ->
                 Panicked(m, "unexpected request header")
            [] OTHER -> Panicked(m, "todo: unknown request header")

\* UserDataState::ReceivedRequest(_)
InReceivedRequest(m, request) ==
  Panicked(m, "TODO: handle case where request received when already have one")

\* UserDataState::SendingResponse {pending_request, ..}
InSendingResponse(m, request) ==
  IF Len(request) = 0
  THEN Panicked(m, "request[0] out of range")
  ELSE IF Header(request) = "NeedMoreResponseData"
       THEN [m EXCEPT !.user_data.pending_request = TRUE]
       ELSE Panicked(m, "TODO: handle protocol violation where request is sent without correct header value")

InNone_Exposes(m, request) ==
  IF Len(request) = 0
  THEN Panicked(m, "request[0] out of range")
  ELSE CASE Header(request) \in {"FinalRequest", "InitialRequest"} ->
              [send_user_response(m, NoData, 0).m
                 EXCEPT !.user_data = UserData("ReceivedRequest", Body(request), 0, FALSE)]
         [] OTHER -> Panicked(m, "todo: unknown user request header")

\* UserDataState::None
InNone(m, request) ==
  IF Len(request) = 0
  THEN Panicked(m, "request[0] out of range")
  ELSE CASE Header(request) = "FinalRequest" ->
              IF Len(Body(request)) > MAX_MESSAGE_LEN
              THEN Panicked(m, "ArrayVec::extend beyond capacity")
              ELSE [m EXCEPT !.user_data = UserData("ReceivedRequest", Body(request), 0, FALSE)]
         [] Header(request) = "InitialRequest" ->
              IF Len(Body(request)) > MAX_MESSAGE_LEN
              THEN Panicked(send_user_response(m, NoData, 0).m, "ArrayVec::extend beyond capacity")
              ELSE [send_user_response(m, NoData, 0).m
                      EXCEPT !.user_data = UserData("ReceivingRequest", Body(request), 0, FALSE)]
         [] Header(request) = "NeedMoreResponseData" ->
              Panicked(m, "TODO: unexpected request header")
         [] OTHER -> Panicked(m, "todo: unknown user request header")

receive_request(m, request) ==
  CASE m.user_data.state = "ReceivingRequest" -> InReceivingRequest(m, request)
    [] m.user_data.state = "ReceivedRequest" -> InReceivedRequest(m, request)
    [] m.user_data.state = "SendingResponse" -> InSendingResponse(m, request)
    [] OTHER -> InNone(m, request)

(***************************************************************************)
(* NotWebUsb                                                               *)
(***************************************************************************)
Machine(cid_next, tx, ring, raw_response, user_data) ==
  [cid_next |-> cid_next, tx |-> tx, ring |-> ring, raw_response |-> raw_response,
   user_data |-> user_data, staged |-> NoData, out |-> <<>>, panic |-> "",
   result |-> "Ok", handed |-> <<>>]

\* NotWebUsb::new
NotWebUsb_new == Machine(1, None, NoData, Zeros(PACKET_LEN), UserDataState_None)

reset_state_KeepsRing(m) ==
  [m EXCEPT !.cid_next = 0,
            !.tx = None,
            !.raw_response = Zeros(PACKET_LEN),
            !.user_data = UserDataState_None]

\* NotWebUsb::reset_state
reset_state(m) ==
  [m EXCEPT !.cid_next = 0,
            !.tx = None,
            !.ring = NoData,
            !.raw_response = Zeros(PACKET_LEN),
            !.user_data = UserDataState_None]

\* the request, then the key handle it completes, handed on as poll does for
\* an initial and for a continuation packet
Forward(r) ==
  IF r.m.panic = "" /\ IsSome(r.request)
  THEN receive_request(r.m, Unwrap(r.request))
  ELSE r.m

ReceiveAndForward(m, data) == Forward(receive_user_request(m, data))

\* the match on request.ty of poll: the machine after it and the direct
\* response, None or Some(the report encode leaves in raw_response)
Dispatched(m, response) == [m |-> m, response |-> response]

OnPing_HeaderOnly(m, report) ==
  Dispatched(m, Some(CtapHeaderInitialization_encode(Zeros(PACKET_LEN),
                       Slice(report, 0, 4), 129, U16FromBe(Slice(report, 5, 7)))))

\* CtapHidRequestTy::Ping
OnPing(m, report) == Dispatched(m, Some(EncodeRawReport(report)))

OnMessage_Replaces(m, request) ==
  Dispatched(
    ReceiveAndForward(
      [m EXCEPT !.tx = Some(InProgressTransaction_new(
                         request.message_type, request.cid, request.length))],
      request.data),
    None)

\* CtapHidRequestTy::Message (MessageInitial of ctaphid.rs)
OnMessage(m, request) ==
  IF IsSome(m.tx)
  THEN Dispatched(m, Some(EncodeError(request.cid, "ChannelBusy")))
  ELSE Dispatched(
         ReceiveAndForward(
           [m EXCEPT !.tx = Some(InProgressTransaction_new(
                              request.message_type, request.cid, request.length))],
           request.data),
         None)

\* a Continuation arm without the comparison of the sequence numbers
OnContinuation_AnySequence(m, request) ==
  IF IsSome(m.tx)
  THEN LET m1 == [m EXCEPT !.tx[1].request_sequence = (@ + 1) % 256]
       IN IF Unwrap(m1.tx).cid = request.cid
          THEN Dispatched(ReceiveAndForward(m1, request.data), None)
          ELSE Dispatched(m1, None)
  ELSE Dispatched(m, None)

\* CtapHidRequestTy::Continuation (MessageContinuation of ctaphid.rs)
OnContinuation(m, request) ==
  IF IsSome(m.tx)
  THEN IF Unwrap(m.tx).request_sequence # request.sequence
       THEN Dispatched(m, Some(EncodeError(request.cid, "InvalidSeq")))
       ELSE LET m1 == [m EXCEPT !.tx[1].request_sequence = (@ + 1) % 256]
            IN IF Unwrap(m1.tx).cid = request.cid
               THEN Dispatched(ReceiveAndForward(m1, request.data), None)
               ELSE Dispatched(m1, None)
  ELSE Dispatched(m, None)

\* CtapHidRequestTy::Init
OnInit_NoAllocation(m, request) ==
  Dispatched(m, Some(EncodeInit(request.cid, InitResponse(request.data, U32ToBe(m.cid_next)))))

OnInit(m, request) ==
  LET m1 == [m EXCEPT !.cid_next = @ + 1]
  IN Dispatched(m1, Some(EncodeInit(request.cid,
                           InitResponse(request.data, U32ToBe(m1.cid_next)))))

OnCancel_Keeps(m, request) ==
  Dispatched(m, IF IsSome(m.tx)
                THEN Some(EncodeError(request.cid, "KeepAliveCancel"))
                ELSE None)

\* CtapHidRequestTy::Cancel
OnCancel(m, request) ==
  Dispatched([m EXCEPT !.tx = None],
             IF IsSome(m.tx)
             THEN Some(EncodeError(request.cid, "KeepAliveCancel"))
             ELSE None)

OnUnknown_Silent(m, request) == Dispatched(m, None)

\* CtapHidRequestTy::CborMessage (no such request is parsed) and Unknown
OnUnknown(m, request) ==
  Dispatched(m, Some(EncodeError(request.cid, "InvalidCommand")))

DispatchRequest(m, report, request) ==
  CASE request.ty = "Ping" -> OnPing(m, report)
    [] request.ty = "MessageInitial" -> OnMessage(m, request)
    [] request.ty = "MessageContinuation" -> OnContinuation(m, request)
    [] request.ty = "Init" -> OnInit(m, request)
    [] request.ty = "Cancel" -> OnCancel(m, request)
    [] OTHER -> OnUnknown(m, request)

Dispatch(m, report) == DispatchRequest(m, report, CtapHidRequest_parse(report))

(***************************************************************************)
(* NotWebUsb::poll.  read is what read_report returned: kind "WouldBlock",  *)
(* "Err" (any other UsbError) or "Ok" with the report; direct_write and    *)
(* message_write are what write_report returns for the direct response and *)
(* for the Message response packet: "Ok", "WouldBlock", "Duplicate", "Err".*)
(***************************************************************************)
WriteResults == {"Ok", "WouldBlock", "Duplicate", "Err"}

ReadWouldBlock == [kind |-> "WouldBlock", report |-> NoData]

ReadErr == [kind |-> "Err", report |-> NoData]

ReadOk(report) == [kind |-> "Ok", report |-> report]

Failed(m) == m.panic # "" \/ m.result = "Err"

\* if let Some(response) = response { encode; write_report }
WriteDirect(d, direct_write) ==
  IF Failed(d.m) \/ ~IsSome(d.response)
  THEN d.m
  ELSE LET m1 == [d.m EXCEPT !.raw_response = Unwrap(d.response)]
       IN CASE direct_write = "WouldBlock" -> Panicked(m1, "todo: error handling")
            [] direct_write = "Duplicate" -> Panicked(m1, "todo: What does this mean?")
            [] direct_write = "Ok" -> [m1 EXCEPT !.out = Append(@, m1.raw_response)]
            [] OTHER -> [reset_state(m1) EXCEPT !.result = "Err"]

\* match self.fido.device().read_report(): the machine and the direct
\* response after the match on the request
DispatchRead(m, read) ==
  CASE read.kind = "WouldBlock" -> Dispatched(m, None)
    [] read.kind = "Err" -> Dispatched([reset_state(m) EXCEPT !.result = "Err"], None)
    [] OTHER -> Dispatch(m, read.report)

ReadPhase(m, read, direct_write) == WriteDirect(DispatchRead(m, read), direct_write)

\* in_progress_transaction.send_user_response(data, bytes_sent, &mut self.tx);
\* *pending_request = false
StreamNext_KeepsPending(m, sent) ==
  [sent.m EXCEPT !.user_data.bytes_sent = sent.bytes_sent]

StreamNext(m, sent) ==
  [sent.m EXCEPT !.user_data.bytes_sent = sent.bytes_sent,
                 !.user_data.pending_request = FALSE]

\* the stream is never ended
StreamEnd_Stays(m) == m

\* if *bytes_sent >= data.len() as u32 { self.user_data = UserDataState::None }
StreamEnd(m) ==
  IF m.user_data.bytes_sent >= Len(m.user_data.data)
  THEN [m EXCEPT !.user_data = UserDataState_None]
  ELSE m

TunnelStep_EndsEarly(m) ==
  IF m.user_data.state # "SendingResponse"
  THEN m
  ELSE IF m.user_data.pending_request
       THEN [StreamNext(m, send_user_response(m, m.user_data.data, m.user_data.bytes_sent))
               EXCEPT !.user_data = UserDataState_None]
       ELSE StreamEnd(m)

\* if let UserDataState::SendingResponse {..} = &mut self.user_data
TunnelStep(m) ==
  IF m.user_data.state # "SendingResponse"
  THEN m
  ELSE IF m.user_data.pending_request
       THEN StreamEnd(StreamNext(m, send_user_response(m, m.user_data.data,
                                                       m.user_data.bytes_sent)))
       ELSE StreamEnd(m)

\* if !in_progress_transaction.response_ready_to_send { match self.rx.read() }
PreparePacket(m) ==
  LET t == Unwrap(m.tx)
  IN IF t.response_ready_to_send \/ m.ring = NoData
     THEN m
     ELSE LET remaining_u2f_size == Len(m.ring)
              packet_size == IF t.response_continuation_state = Initial
                             THEN Min(remaining_u2f_size, INIT_DATA_LEN)
                             ELSE Min(remaining_u2f_size, CONT_DATA_LEN)
              data == Slice(m.ring, 0, packet_size)
          IN IF EncodeMessagePanics(t.response_continuation_state, data)
             THEN Panicked(m, "message data is too long for one packet")
             ELSE [m EXCEPT
                     !.raw_response = EncodeMessage(t.cid, t.response_continuation_state,
                                        t.message_type, remaining_u2f_size % 65536, data),
                     !.tx[1].response_final_packet_is_ready_to_send =
                        (remaining_u2f_size = packet_size),
                     !.tx[1].response_continuation_state =
                        IF @ = Initial THEN 0 ELSE @ + 1,
                     !.tx[1].response_ready_to_send = TRUE,
                     !.ring = Slice(@, packet_size, remaining_u2f_size)]

WritePacket_Unready(m, message_write) ==
  IF m.panic # ""
  THEN m
  ELSE CASE message_write = "WouldBlock" -> m
         [] message_write = "Duplicate" -> Panicked(m, "todo: What does this mean?")
         [] message_write = "Ok" ->
              [m EXCEPT !.out = Append(@, m.raw_response),
                        !.tx = IF Unwrap(m.tx).response_final_packet_is_ready_to_send
                               THEN None
                               ELSE Some([Unwrap(m.tx) EXCEPT !.response_ready_to_send = FALSE])]
         [] OTHER -> Panicked(m, "Failed to write fido report")

\* if in_progress_transaction.response_ready_to_send { match write_report }
WritePacket(m, message_write) ==
  IF m.panic # "" \/ ~Unwrap(m.tx).response_ready_to_send
  THEN m
  ELSE CASE message_write = "WouldBlock" -> m
         [] message_write = "Duplicate" -> Panicked(m, "todo: What does this mean?")
         [] message_write = "Ok" ->
              [m EXCEPT !.out = Append(@, m.raw_response),
                        !.tx = IF Unwrap(m.tx).response_final_packet_is_ready_to_send
                               THEN None
                               ELSE Some([Unwrap(m.tx) EXCEPT !.response_ready_to_send = FALSE])]
         [] OTHER -> Panicked(m, "Failed to write fido report")

\* if let Some(in_progress_transaction) = &mut self.in_progress_transaction_option:
\* up to the prepared packet, then its write
Prepared(m) ==
  IF Failed(m) \/ ~IsSome(m.tx) THEN m ELSE PreparePacket(TunnelStep(m))

Written(m, message_write) ==
  IF Failed(m) \/ ~IsSome(m.tx) THEN m ELSE WritePacket(m, message_write)

MessagePhase(m, message_write) == Written(Prepared(m), message_write)

poll(m, read, direct_write, message_write) ==
  MessagePhase(ReadPhase(m, read, direct_write), message_write)

\* NotWebUsb::check_pending_request(&self): the machine after it and the
\* Option it returns
Checked(m, request) == [m |-> m, request |-> request]

check_pending_request_Takes(m) ==
  IF m.user_data.state = "ReceivedRequest"
  THEN Checked([m EXCEPT !.user_data = UserDataState_None], Some(m.user_data.data))
  ELSE Checked(m, None)

check_pending_request(m) ==
  IF m.user_data.state = "ReceivedRequest"
  THEN Checked(m, Some(m.user_data.data))
  ELSE Checked(m, None)

send_response_Unchecked(m, message) ==
  [m EXCEPT !.user_data = UserData("SendingResponse", message, 0, TRUE)]

\* NotWebUsb::send_response
send_response(m, message) ==
  IF m.user_data.state # "ReceivedRequest"
  THEN Panicked(m, "Cannot call NotWebusb::send_response until a request has been received.")
  ELSE [m EXCEPT !.user_data = UserData("SendingResponse", message, 0, TRUE)]

(***************************************************************************)
(* The host: the reports it may write.  A message is cut into one          *)
(* initialization packet and continuation packets, zero padded.            *)
(***************************************************************************)
Pad(data, n) == data \o Zeros(n - Len(data))

HostInitPacket(cid, cmd, bcnt, data) ==
  cid \o <<128 + cmd>> \o U16ToBe(bcnt) \o Pad(data, INIT_DATA_LEN)

HostContPacket(cid, seq, data) == cid \o <<seq>> \o Pad(data, CONT_DATA_LEN)

\* packet number k of message msg: 0 the initialization packet, k > 0 the
\* continuation packet with sequence k - 1
HostPacket(cid, cmd, msg, k) ==
  IF k = 0
  THEN HostInitPacket(cid, cmd, Len(msg), Slice(msg, 0, Min(Len(msg), INIT_DATA_LEN)))
  ELSE LET from == INIT_DATA_LEN + (k - 1) * CONT_DATA_LEN
       IN HostContPacket(cid, k - 1, Slice(msg, from, Min(Len(msg), from + CONT_DATA_LEN)))

PacketCount(msg) ==
  IF Len(msg) <= INIT_DATA_LEN THEN 1
  ELSE 1 + ((Len(msg) - INIT_DATA_LEN + CONT_DATA_LEN - 1) \div CONT_DATA_LEN)

HostPackets(cid, cmd, msg) == [k \in 1..PacketCount(msg) |-> HostPacket(cid, cmd, msg, k - 1)]

\* U2F APDUs in the extended form
RejectedOrigin == Fill(32, 17)

AuthenticateApdu(p1, application_parameter, key_handle) ==
  <<0, 2, p1, 0, 0>> \o U16ToBe(65 + Len(key_handle)) \o Zeros(32)
    \o application_parameter \o <<Len(key_handle)>> \o key_handle

VersionApdu == <<0, 3, 0, 0, 0, 0, 0>>

CborMessage == <<4>>

\* a CBOR request of another command, with parameters
OtherCborMessage == <<1, 161, 1, 2>>

\* a CBOR request of three packets
LongCborMessage == [i \in 1..120 |-> i]

BroadcastCid == <<255, 255, 255, 255>>

\* the channel the host uses, and a second one
HostCid == <<0, 0, 0, 2>>

OtherCid == <<0, 0, 0, 3>>

\* What the host writes in one go: the packets, the tunnel chunk they carry
\* to an accepted origin (<<>> if none), and whether the host waits for the
\* previous transaction to end before it writes them.
Sending(packets, chunk, patient) ==
  [packets |-> packets, chunk |-> chunk, patient |-> patient]

Message(cid, cmd, msg) == Sending(HostPackets(cid, cmd, msg), NoData, TRUE)

Chunk(p1, key_handle) ==
  Sending(HostPackets(HostCid, 3, AuthenticateApdu(p1, AcceptedOrigin, key_handle)),
          key_handle, TRUE)

Stray(packet) == Sending(<<packet>>, NoData, FALSE)

PingPacket == HostInitPacket(HostCid, 1, 3, <<1, 2, 3>>)

InitPacket == HostInitPacket(BroadcastCid, 6, 8, <<1, 2, 3, 4, 5, 6, 7, 8>>)

CancelPacket == HostInitPacket(HostCid, 17, 0, NoData)

UnknownPacket == HostInitPacket(OtherCid, 5, 0, NoData)

OtherPingPacket == HostInitPacket(OtherCid, 1, 2, <<9, 8>>)

\* the initialization packet of a message one byte longer than the request
\* buffer
OversizePacket == HostInitPacket(HostCid, 3, MAXIMUM_CTAPHID_MESSAGE + 1, VersionApdu)

(***************************************************************************)
(* The menus of the host.  The tunnel chunks are key handles: a header     *)
(* byte (0 more request follows, 2 request complete, 1 send me more of the *)
(* response) and the body.                                                 *)
(***************************************************************************)
ChunkBody == [i \in 1..43 |-> 96 + i]

FinalBody == <<107, 108, 109>>

InitialChunk == <<0>> \o ChunkBody

FinalChunk == <<2>> \o FinalBody

PollChunk == <<1>>

BadChunk == <<3, 97>>

EmptyInitialChunk == <<0>>

\* a final chunk from an origin the filter rejects
RejectedBody == <<9, 9>>

RejectedMessage == AuthenticateApdu(3, RejectedOrigin, <<2>> \o RejectedBody)

\* the messages of the framing runs: one- and two-packet requests with one-
\* and two-packet responses, a ping and a cancel in between
FramingMenu ==
  { Message(HostCid, 3, VersionApdu),
    Message(HostCid, 16, CborMessage),
    Message(HostCid, 16, OtherCborMessage),
    Message(HostCid, 16, LongCborMessage),
    Chunk(3, EmptyInitialChunk),
    Stray(PingPacket),
    Stray(CancelPacket) }

\* the messages of the runs with a second host that does not wait
StrayMenu ==
  { Message(HostCid, 3, VersionApdu),
    Stray(PingPacket),
    Stray(UnknownPacket),
    Stray(OversizePacket),
    Stray(HostInitPacket(OtherCid, 3, Len(VersionApdu), VersionApdu)),
    Stray(HostContPacket(HostCid, 0, NoData)),
    Stray(HostContPacket(HostCid, 1, NoData)),
    Stray(HostContPacket(OtherCid, 0, NoData)) }

\* the messages of the tunnel runs
TunnelMenu ==
  { Stray(OtherPingPacket),
    Stray(UnknownPacket),
    Chunk(3, InitialChunk),
    Chunk(3, FinalChunk),
    Chunk(8, PollChunk),
    Chunk(3, BadChunk),
    Chunk(8, NoData),
    Message(HostCid, 3, RejectedMessage),
    Message(HostCid, 3, AuthenticateApdu(7, AcceptedOrigin, FinalChunk)) }

\* the messages of the runs with a host that writes one continuation packet
\* too many
ReplayMenu ==
  { Chunk(3, FinalChunk),
    Chunk(8, PollChunk),
    Stray(HostContPacket(HostCid, 1, NoData)) }

\* the messages of the channel allocation runs
InitMenu ==
  { Stray(InitPacket),
    Stray(PingPacket),
    Message(HostCid, 3, VersionApdu),
    Chunk(3, FinalChunk) }

\* what the application may answer
Responses == { [i \in 1..n |-> i] : n \in {0, 58, 121} }

(***************************************************************************)
(* What the host makes of the reports it reads.                            *)
(***************************************************************************)
\* reassembly of Message response frames: an initialization frame announces
\* bcnt and carries the first bytes, a continuation frame the next ones
\* the host's reading of the Message response frames of one transaction:
\* the bcnt and the payload bytes reassembled, and byte 4 (the command or
\* the sequence) of every frame in the order written
Reassembly(bcnt, bytes, frames) == [bcnt |-> bcnt, bytes |-> bytes, frames |-> frames]

NothingReceived == Reassembly(0, NoData, <<>>)

HostReceive(rx, report) ==
  IF report[5] >= 128
  THEN LET bcnt == U16FromBe(Slice(report, 5, 7))
       IN Reassembly(bcnt, Slice(report, 7, 7 + Min(bcnt, INIT_DATA_LEN)),
                     Append(rx.frames, report[5]))
  ELSE LET rest == rx.bcnt - Len(rx.bytes)
       IN Reassembly(rx.bcnt,
            rx.bytes \o Slice(report, 5, 5 + Min(IF rest < 0 THEN 0 ELSE rest, CONT_DATA_LEN)),
            Append(rx.frames, report[5]))

\* the two signature slots of an Authenticate response, the 0x7f bytes and
\* the ASN.1 framing taken off
Slots(response) == Slice(response, 10, 10 + SLOT_LEN) \o Slice(response, 44, 44 + SLOT_LEN)

\* the stream of one tunnelled response as the page reads it: the length
\* announced by the first Authenticate response (-1 before it), the payload
\* bytes so far, the number of Authenticate responses that carried them and
\* the number of chunks with header 1 the page has written
Stream(announced, bytes, count, asked) ==
  [announced |-> announced, bytes |-> bytes, count |-> count, asked |-> asked]

NoStream == Stream(-1, NoData, 0, 0)

U32FromBe(b) == ((b[1] * 256 + b[2]) * 256 + b[3]) * 256 + b[4]

Take(s, n) == Slice(s, 0, Min(Len(s), IF n < 0 THEN 0 ELSE n))

HostStream(st, response) ==
  IF st.announced < 0
  THEN LET announced == U32FromBe(Slots(response))
       IN Stream(announced, Take(Slice(Slots(response), 4, 2 * SLOT_LEN), announced),
                 st.count + 1, st.asked)
  ELSE Stream(st.announced,
              st.bytes \o Take(Slots(response), st.announced - Len(st.bytes)),
              st.count + 1, st.asked)

(***************************************************************************)
(* The state.  The first six variables are the device: the fields of       *)
(* NotWebUsb, the ring OUTGOING_MESSAGE_BYTES, and the panic that stopped  *)
(* it.  wire holds the reports the host has written and poll has not read. *)
(* call, out, result and pending describe the last call: its inputs, the   *)
(* reports it wrote, what poll returned, what check_pending_request        *)
(* returned.  The rest is history:                                         *)
(*   produced      the response bytes staged for the current transaction   *)
(*   received      the host's reassembly of its Message response frames    *)
(*   done          the last call wrote the final packet of a transaction   *)
(*   handed        the requests the last call passed to the message handler *)
(*   assigned      the channel ids of the INIT responses written, in order *)
(*   host_request  the chunk bodies the host wrote for the current request *)
(*   host_final    the host wrote the final chunk of the current request   *)
(*   response      <<>> or <<the buffer handed to send_response>>          *)
(*   carried       the host's reading of the stream of that response       *)
(* codec belongs to the runs of the report codec alone: the response being *)
(* encoded, its report and what parse makes of the report.                 *)
(***************************************************************************)
VARIABLES cid_next, in_progress_transaction_option, outgoing, raw_response,
          user_data, panicked, wire, call, out, result, pending,
          produced, received, done, assigned, host_request, host_final,
          response, carried, codec, handed

device == <<cid_next, in_progress_transaction_option, outgoing, raw_response, user_data>>

framing == <<produced, received, done, handed>>

tunnel == <<host_request, host_final, response, carried>>

machine == <<device, panicked, wire, call, out, result, pending, framing, assigned, tunnel>>

vars == <<machine, codec>>

Current ==
  Machine(cid_next, in_progress_transaction_option, outgoing, raw_response, user_data)

Call(op, read, direct_write, message_write) ==
  [op |-> op, read |-> read, direct_write |-> direct_write, message_write |-> message_write]

NoCall == Call("none", ReadWouldBlock, "Ok", "Ok")

Store(m) ==
  /\ cid_next' = m.cid_next
  /\ in_progress_transaction_option' = m.tx
  /\ outgoing' = m.ring
  /\ raw_response' = m.raw_response
  /\ user_data' = m.user_data
  /\ out' = m.out
  /\ result' = m.result

Constructed ==
  /\ cid_next = NotWebUsb_new.cid_next
  /\ in_progress_transaction_option = NotWebUsb_new.tx
  /\ outgoing = NotWebUsb_new.ring
  /\ raw_response = NotWebUsb_new.raw_response
  /\ user_data = NotWebUsb_new.user_data
  /\ out = <<>>
  /\ result = "Ok"
  /\ panicked = ""
  /\ wire = <<>>
  /\ call = NoCall
  /\ pending = None
  /\ produced = NoData
  /\ received = NothingReceived
  /\ done = FALSE
  /\ handed = <<>>
  /\ assigned = <<>>
  /\ host_request = NoData
  /\ host_final = FALSE
  /\ response = None
  /\ carried = NoStream

\* nothing is being encoded
NoCodec == [step |-> "none", response |-> <<>>, report |-> <<>>, decoded |-> <<>>]

Init == Constructed /\ codec = NoCodec

\* what a finished transaction or a finished stream left is dropped by the
\* next call
ProducedNow == IF done THEN NoData ELSE produced

ReceivedNow == IF done THEN NothingReceived ELSE received

ResponseNow == IF user_data.state = "SendingResponse" THEN response ELSE None

CarriedNow == IF user_data.state = "SendingResponse" THEN carried ELSE NoStream

Settle ==
  /\ produced' = ProducedNow
  /\ received' = ReceivedNow
  /\ done' = FALSE
  /\ handed' = <<>>
  /\ response' = ResponseNow
  /\ carried' = CarriedNow

\* a panic!, a todo! or an index out of range ends the program: nothing of
\* its state is observable any more, only the call that raised it
Halt(why, c) ==
  /\ panicked' = why
  /\ call' = c
  /\ Store(NotWebUsb_new)
  /\ wire' = <<>>
  /\ pending' = None
  /\ produced' = NoData
  /\ received' = NothingReceived
  /\ done' = FALSE
  /\ handed' = <<>>
  /\ assigned' = <<>>
  /\ host_request' = NoData
  /\ host_final' = FALSE
  /\ response' = None
  /\ carried' = NoStream
  /\ UNCHANGED codec

(***************************************************************************)
(* The host writes the packets of one message, or one stray report, when   *)
(* the reports it wrote before have been read.  A host that waits writes   *)
(* only when the previous transaction has ended.                           *)
(***************************************************************************)
MaxStale == 20

MaxInit == 3

IsInit(packet) == CtapHidRequest_parse(packet).ty = "Init"

IsCancel(packet) == CtapHidRequest_parse(packet).ty = "Cancel"

HostMayWrite(sending) ==
  /\ sending.patient => ~IsSome(in_progress_transaction_option)
  /\ IsInit(sending.packets[1]) => Len(assigned) < MaxInit
  /\ IsCancel(sending.packets[1]) => Len(outgoing) <= MaxStale

\* the request the host is writing, as the host counts it: a chunk after the
\* final one starts the next request
HostRequestAfter(sending) ==
  IF sending.chunk = NoData \/ sending.chunk[1] \notin {0, 2}
  THEN host_request
  ELSE (IF host_final THEN NoData ELSE host_request)
         \o Slice(sending.chunk, 1, Len(sending.chunk))

HostFinalAfter(sending) ==
  IF sending.chunk = NoData \/ sending.chunk[1] \notin {0, 2}
  THEN host_final
  ELSE sending.chunk[1] = 2

HostWrite(menu) ==
  /\ panicked = ""
  /\ wire = <<>>
  /\ \E sending \in menu :
       /\ HostMayWrite(sending)
       /\ wire' = sending.packets
       /\ host_request' = HostRequestAfter(sending)
       /\ host_final' = HostFinalAfter(sending)
       /\ carried' = IF sending.chunk # NoData /\ sending.chunk[1] = 1
                     THEN [CarriedNow EXCEPT !.asked = @ + 1]
                     ELSE CarriedNow
  /\ call' = Call("write", ReadWouldBlock, "Ok", "Ok")
  /\ out' = <<>>
  /\ pending' = None
  /\ produced' = ProducedNow
  /\ received' = ReceivedNow
  /\ done' = FALSE
  /\ handed' = <<>>
  /\ response' = ResponseNow
  /\ UNCHANGED <<device, panicked, result, assigned, codec>>

(***************************************************************************)
(* The history a call of poll leaves                                       *)
(***************************************************************************)
\* the bytes the tunnel step of poll staged
StagedBy(w, t) == Slice(t.staged, Len(w.staged), Len(t.staged))

Streamed(w) ==
  IF Failed(w) \/ ~IsSome(w.tx) THEN NoData ELSE StagedBy(w, TunnelStep(w))

\* the host reads the report the response packet write put out, if any
Reread(p, m) ==
  IF Len(m.out) > Len(p.out)
  THEN HostReceive(ReceivedNow, m.out[Len(m.out)])
  ELSE ReceivedNow

Reread_stream(streamed) ==
  IF streamed # NoData THEN HostStream(CarriedNow, streamed) ELSE CarriedNow

\* m0 the machine before poll, d after the dispatch, p with the packet
\* prepared, m after poll
History(read, m0, d, p, m, streamed) ==
  LET reset == m.result = "Err"
      created == ~IsSome(m0.tx) /\ IsSome(d.m.tx)
      cancelled == IsSome(m0.tx) /\ ~IsSome(d.m.tx)
  IN /\ produced' = IF reset \/ cancelled THEN NoData
                    ELSE (IF created THEN NoData ELSE ProducedNow) \o m.staged
     /\ received' = IF reset \/ cancelled THEN NothingReceived ELSE Reread(p, m)
     /\ done' = (~reset /\ IsSome(p.tx) /\ ~IsSome(m.tx))
     /\ handed' = m.handed
     /\ assigned' = IF read.kind = "Ok" /\ IsInit(read.report) /\ ~reset
                    THEN Append(assigned, Slice(m.out[1], 15, 19))
                    ELSE assigned
     /\ host_request' = IF reset THEN NoData ELSE host_request
     /\ host_final' = IF reset THEN FALSE ELSE host_final
     /\ response' = IF reset THEN None ELSE ResponseNow
     /\ carried' = IF reset THEN NoStream ELSE Reread_stream(streamed)

(***************************************************************************)
(* poll, with every outcome of the reads and writes it makes               *)
(***************************************************************************)
DirectWrites(d) ==
  IF Failed(d.m) \/ ~IsSome(d.response) THEN {"Ok"} ELSE WriteResults

MessageWrites(p) ==
  IF Failed(p) \/ ~IsSome(p.tx) THEN {"Ok"}
  ELSE IF Unwrap(p.tx).response_ready_to_send THEN WriteResults ELSE {"Ok"}

\* the end of poll: m the machine after it, c the call
Polled(read, rest, m0, d, p, m, streamed, c) ==
  IF m.panic # ""
  THEN Halt(m.panic, c)
  ELSE /\ Store(m)
       /\ call' = c
       /\ wire' = rest
       /\ pending' = None
       /\ History(read, m0, d, p, m, streamed)
       /\ UNCHANGED <<panicked, codec>>

\* p the machine with the response packet prepared
PollWrite(read, rest, m0, d, direct_write, w, p) ==
  \E message_write \in MessageWrites(p) :
     Polled(read, rest, m0, d, p, Written(p, message_write), Streamed(w),
            Call("poll", read, direct_write, message_write))

\* d the machine and the direct response after the dispatch
PollDirect(read, rest, m0, d, direct_write, w) ==
  PollWrite(read, rest, m0, d, direct_write, w, Prepared(w))

PollDispatched(read, rest, m0, d) ==
  \E direct_write \in DirectWrites(d) :
     PollDirect(read, rest, m0, d, direct_write, WriteDirect(d, direct_write))

PollWith(read, rest) ==
  /\ panicked = ""
  /\ PollDispatched(read, rest, Current, DispatchRead(Current, read))

\* read_report has nothing yet
PollIdle == PollWith(ReadWouldBlock, wire)

\* read_report fails
PollReadError == PollWith(ReadErr, wire)

\* read_report returns the oldest report on the wire
PollReport == wire # <<>> /\ PollWith(ReadOk(Head(wire)), Tail(wire))

(***************************************************************************)
(* The application                                                         *)
(***************************************************************************)
CheckPendingRequest ==
  LET r == check_pending_request(Current)
  IN /\ panicked = ""
     /\ Store(r.m)
     /\ pending' = r.request
     /\ call' = Call("check_pending_request", ReadWouldBlock, "Ok", "Ok")
     /\ Settle
     /\ UNCHANGED <<panicked, wire, assigned, host_request, host_final, codec>>

SendResponse ==
  /\ panicked = ""
  /\ \E message \in Responses :
       LET m == send_response(Current, message)
           c == Call("send_response", ReadWouldBlock, "Ok", "Ok")
       IN IF m.panic # ""
          THEN Halt(m.panic, c)
          ELSE /\ Store(m)
               /\ call' = c
               /\ pending' = None
               /\ produced' = ProducedNow
               /\ received' = ReceivedNow
               /\ done' = FALSE
               /\ handed' = <<>>
               /\ response' = Some(message)
               /\ carried' = NoStream
               /\ host_request' = NoData
               /\ host_final' = FALSE
               /\ UNCHANGED <<panicked, wire, assigned, codec>>

(***************************************************************************)
(* Specifications: the framing runs, the tunnel runs with a host that      *)
(* waits for each response, and the channel allocation runs.               *)
(***************************************************************************)
HostWritesFrames == HostWrite(FramingMenu)

HostWritesChunks == HostWrite(TunnelMenu)

HostWritesInits == HostWrite(InitMenu)

HostWritesStrays == HostWrite(StrayMenu)

HostWritesReplays == Len(outgoing) <= MaxStale /\ HostWrite(ReplayMenu)

\* the reports of the runs that fill the request buffer: initialization
\* reports with the least and the greatest bcnt and with the size of the
\* buffer, and continuation reports with the sequence number the transaction
\* expects, with the first and with the last one, on its channel and on
\* another
FillBcnts == {0, MAXIMUM_CTAPHID_MESSAGE, 65535}

MaxSequence == 127

ExpectedSequence ==
  IF IsSome(in_progress_transaction_option)
  THEN Min(Unwrap(in_progress_transaction_option).request_sequence, MaxSequence)
  ELSE 0

\* the other channel writes continuation reports only at the start of a
\* request
MaxOtherSequence == 2

FillMenu ==
  { Stray(HostInitPacket(HostCid, 3, bcnt, NoData)) : bcnt \in FillBcnts }
    \cup { Stray(HostContPacket(HostCid, sequence, NoData)) :
              sequence \in {0, ExpectedSequence, MaxSequence} }
    \cup { Stray(HostContPacket(OtherCid, sequence, NoData)) :
              sequence \in IF ExpectedSequence < MaxOtherSequence
                           THEN {ExpectedSequence, MaxSequence}
                           ELSE {} }

HostWritesFills == Len(outgoing) <= MaxStale /\ HostWrite(FillMenu)

Next ==
  \/ PollIdle
  \/ PollReadError
  \/ PollReport
  \/ HostWritesFrames

Spec == Init /\ [][Next]_vars

TunnelNext ==
  \/ PollIdle
  \/ PollReport
  \/ HostWritesChunks
  \/ CheckPendingRequest
  \/ SendResponse

TunnelSpec == Init /\ [][TunnelNext]_vars

InitNext ==
  \/ PollIdle
  \/ PollReadError
  \/ PollReport
  \/ HostWritesInits

InitSpec == Init /\ [][InitNext]_vars

StrayNext ==
  \/ PollIdle
  \/ PollReadError
  \/ PollReport
  \/ HostWritesStrays

StraySpec == Init /\ [][StrayNext]_vars

ReplayNext ==
  \/ PollIdle
  \/ PollReport
  \/ HostWritesReplays
  \/ CheckPendingRequest
  \/ SendResponse

ReplaySpec == Init /\ [][ReplayNext]_vars

FillNext ==
  \/ PollIdle
  \/ PollReport
  \/ HostWritesFills

FillSpec == Init /\ [][FillNext]_vars

\* the messages of the runs in which poll is called for ever: a message
\* with a response of one packet, one with a response of two packets, and a
\* report that is answered at once
LiveMenu ==
  { Message(HostCid, 3, VersionApdu),
    Chunk(3, EmptyInitialChunk),
    Stray(PingPacket) }

HostWritesLive == HostWrite(LiveMenu)

LiveNext ==
  \/ PollIdle
  \/ PollReport
  \/ HostWritesLive

\* a poll that reads nothing and in which write_report accepts what poll
\* writes
PollWritten ==
  /\ PollIdle
  /\ call'.direct_write = "Ok"
  /\ call'.message_write = "Ok"

\* poll is called again and again and write_report does not refuse for ever
LiveSpec == Init /\ [][LiveNext]_vars /\ WF_vars(PollWritten)

(***************************************************************************)
(* The runs of the report codec: a response is chosen, encode writes its   *)
(* report, parse reads the report.                                         *)
(***************************************************************************)
CodecCids == {HostCid, BroadcastCid}

CodecInits ==
  { CtapHidResponse(cid, Initial, "Init", InitResponse(nonce8, channel_id)) :
      cid \in CodecCids,
      nonce8 \in {<<1, 2, 3, 4, 5, 6, 7, 8>>, Fill(8, 255)},
      channel_id \in {<<0, 0, 0, 1>>, <<0, 0, 1, 0>>} }

\* (length, data) of an initialization packet: an empty message, one that
\* fits, one that fills the packet, the first packet of a longer one
CodecInitialData ==
  { <<0, NoData>>, <<8, EncodeU2fVersion>>, <<INIT_DATA_LEN, Fill(INIT_DATA_LEN, 171)>>,
    <<653, Fill(INIT_DATA_LEN, 5)>> }

CodecInitials ==
  { CtapHidResponse(cid, Initial, "Message", MessageOf(d[1], d[2], message_type)) :
      cid \in CodecCids, d \in CodecInitialData, message_type \in {"U2f", "Cbor"} }

CodecContinuations ==
  { CtapHidResponse(cid, sequence, "Message", MessageOf(653, data, "U2f")) :
      cid \in CodecCids, sequence \in {0, 1, 127},
      data \in {<<9>>, Fill(CONT_DATA_LEN, 7)} }

CodecRawReports ==
  { CtapHidResponse(Slice(raw, 0, 4), Initial, "RawReport", raw) :
      raw \in {PingPacket, OtherPingPacket} }

CodecErrors ==
  { CtapHidResponse(cid, Initial, "Error", error) :
      cid \in CodecCids,
      error \in {"InvalidCommand", "InvalidLen", "InvalidSeq", "ChannelBusy",
                 "KeepAliveCancel"} }

CodecResponses ==
  CodecInits \cup CodecInitials \cup CodecContinuations \cup CodecRawReports \cup CodecErrors

CodecInit ==
  /\ Constructed
  /\ \E r \in CodecResponses :
       codec = [step |-> "chosen", response |-> r, report |-> <<>>, decoded |-> <<>>]

EncodeResponse ==
  /\ codec.step = "chosen"
  /\ codec' = [codec EXCEPT !.step = "encoded",
                            !.report = CtapHidResponse_encode(codec.response)]
  /\ UNCHANGED machine

ParseReport ==
  /\ codec.step = "encoded"
  /\ codec' = [codec EXCEPT !.step = "parsed",
                            !.decoded = CtapHidRequest_parse(codec.report)]
  /\ UNCHANGED machine

CodecNext ==
  \/ EncodeResponse
  \/ ParseReport

CodecSpec == CodecInit /\ [][CodecNext]_vars

(***************************************************************************)
(* The claims                                                              *)
(***************************************************************************)
Transaction == in_progress_transaction_option

PolledReport == call.op = "poll" /\ call.read.kind = "Ok"

\* C1: when the final packet of a transaction has been written, the payload
\* bytes of the Message response frames the host reassembled for it are the
\* response bytes staged for that transaction, in order, none missing,
\* duplicated or from another transaction.
C1_FramesCarryTheResponse == done => received.bytes = produced

C3_RequestIsTheChunksInOrder ==
  /\ user_data.state = "ReceivedRequest" => host_final /\ user_data.data = host_request
  /\ pending # None => Unwrap(pending) = host_request

C3_Witness == pending = Some(ChunkBody \o ChunkBody \o FinalBody)

\* C4: check_pending_request returns the buffered request exactly in state
\* ReceivedRequest, None in every other state, and changes nothing.
C4_CheckPendingRequest ==
  [][call'.op = "check_pending_request" =>
       /\ pending' = IF user_data.state = "ReceivedRequest"
                     THEN Some(user_data.data) ELSE None
       /\ UNCHANGED <<device, panicked, wire>>]_vars

C4_Witness ==
  /\ call.op = "check_pending_request"
  /\ pending = Some(FinalBody)
  /\ user_data.state = "ReceivedRequest"

\* C5: send_response(buf) in state ReceivedRequest moves to SendingResponse
\* with data = buf, bytes_sent = 0, pending_request = true; in every other
\* state it panics and starts no response.
C5_SendResponse ==
  [][call'.op = "send_response" =>
       IF user_data.state = "ReceivedRequest"
       THEN /\ panicked' = ""
            /\ response' # None
            /\ user_data' = UserData("SendingResponse", Unwrap(response'), 0, TRUE)
       ELSE /\ panicked' # ""
            /\ user_data'.state # "SendingResponse"]_vars

C5_Witness ==
  /\ call.op = "send_response"
  /\ user_data = UserData("SendingResponse", [i \in 1..121 |-> i], 0, TRUE)

\* C6: no misuse of the tunnel protocol by an accepted chunk (a header
\* outside {0,1,2}, header 1 while no response is being sent, a chunk while a
\* request is in ReceivedRequest, header 0 or 2 in SendingResponse) makes
\* poll panic.
TunnelMisusePanics ==
  { "unexpected request header",
    "todo: unknown request header",
    "TODO: handle case where request received when already have one",
    "TODO: handle protocol violation where request is sent without correct header value",
    "TODO: unexpected request header",
    "todo: unknown user request header" }

C6_MisuseNeverPanics == panicked \notin TunnelMisusePanics

\* C7: an Authenticate request (enforce presence) from a rejected origin
\* leaves the UserDataState as it was, is never handed to the application,
\* and is answered with an Authenticate response with an empty signature:
\* user presence 1, counter 0, status 0x9000.
RejectedPackets == HostPackets(HostCid, 3, RejectedMessage)

EmptyAuthenticateResponse == <<1, 0, 0, 0, 0, 144, 0>>

C7_RejectedOriginIsDropped ==
  /\ [](pending # Some(RejectedBody) /\ user_data.data # RejectedBody)
  /\ [][(call'.op = "poll" /\ call'.read = ReadOk(RejectedPackets[2]) /\ panicked' = "") =>
          /\ user_data' = user_data
          /\ produced' = EmptyAuthenticateResponse
          /\ call'.message_write = "Ok" =>
               /\ done'
               /\ received'.bytes = EmptyAuthenticateResponse
               /\ Len(out') = 1
               /\ out'[1][5] = 131]_vars

C7_Witness ==
  /\ PolledReport
  /\ call.read.report = RejectedPackets[2]
  /\ done
  /\ received.bytes = EmptyAuthenticateResponse
  /\ user_data.state = "ReceivingRequest"

\* C8: every INIT is answered with a channel id that no earlier INIT was
\* answered with.
C8_ChannelIdsDiffer ==
  \A i, j \in 1..Len(assigned) : i # j => assigned[i] # assigned[j]

\* the request side of a transaction
RequestSide(t) ==
  <<t.cid, t.message_type, t.request_sequence, t.request_buffer,
    t.request_payload_size, t.request_payload_bytes_written>>

IsPing(report) == CtapHidRequest_parse(report).ty = "Ping"

IsMessageInit(report) == CtapHidRequest_parse(report).ty = "MessageInitial"

\* C9: a PING report is answered, when write_report accepts the answer, with
\* a report equal to it byte for byte; the transaction is neither created,
\* dropped nor changed on its request side by it, and the UserDataState
\* stays what it was (the stream of a response being sent may go on).
C9_PingIsEchoed ==
  [][(call'.op = "poll" /\ call'.read.kind = "Ok" /\ IsPing(call'.read.report)
        /\ panicked' = "" /\ result' = "Ok") =>
       /\ Len(out') >= 1
       /\ out'[1] = call'.read.report
       /\ IsSome(Transaction') =>
            IsSome(Transaction) /\ RequestSide(Unwrap(Transaction')) = RequestSide(Unwrap(Transaction))
       /\ (IsSome(Transaction) /\ ~IsSome(Transaction')) => done'
       /\ user_data.state # "SendingResponse" => user_data' = user_data
       /\ user_data.state = "SendingResponse" =>
            \/ user_data' = UserDataState_None
            \/ /\ user_data'.state = "SendingResponse"
               /\ user_data'.data = user_data.data]_vars

C9_Witness ==
  /\ PolledReport
  /\ IsPing(call.read.report)
  /\ Len(out) >= 1
  /\ out[1] = call.read.report
  /\ IsSome(Transaction)
  /\ user_data.state = "ReceivedRequest"

\* C10: a MSG or CBOR initialization report read while a transaction exists
\* is answered with the error report CHANNEL_BUSY (command 0x3f, bcnt 1,
\* code 6) on the channel of the report, and the transaction keeps its cid,
\* buffer, bytes written and expected sequence, and its response state if no
\* packet of it is prepared or written in the same poll; the report starts a
\* transaction only when there is none.
BusyError(report, cid) ==
  report = cid \o <<63, 0, 1, 6>> \o Zeros(PACKET_LEN - 8)

C10_ChannelBusy ==
  [][(call'.op = "poll" /\ call'.read.kind = "Ok" /\ IsMessageInit(call'.read.report)
        /\ panicked' = "" /\ result' = "Ok") =>
       IF IsSome(Transaction)
       THEN /\ Len(out') >= 1
            /\ BusyError(out'[1], Slice(call'.read.report, 0, 4))
            /\ IsSome(Transaction') =>
                 RequestSide(Unwrap(Transaction')) = RequestSide(Unwrap(Transaction))
            /\ ~IsSome(Transaction') => done'
            /\ (Len(out') = 1 /\ (Unwrap(Transaction).response_ready_to_send \/ outgoing = NoData)) =>
                 Transaction' = Transaction
       ELSE IsSome(Transaction') =>
              /\ Unwrap(Transaction').cid = Slice(call'.read.report, 0, 4)
              /\ Unwrap(Transaction').request_payload_size =
                   U16FromBe(Slice(call'.read.report, 5, 7))]_vars

C10_Witness ==
  /\ PolledReport
  /\ IsMessageInit(call.read.report)
  /\ Len(out) = 1
  /\ BusyError(out[1], OtherCid)
  /\ IsSome(Transaction)
  /\ Unwrap(Transaction).cid = HostCid

\* the error report: command 0x3f, bcnt 1 and the code, on channel cid
ErrorFrame(report, cid, code) ==
  report = cid \o <<63, 0, 1, code>> \o Zeros(PACKET_LEN - 8)

\* C11: a CANCEL report read while a transaction exists drops the transaction
\* and is answered, when write_report accepts the answer, with the error
\* report KEEPALIVE_CANCEL (code 0x2d) on the channel of the report and with
\* nothing else; a CANCEL report read while there is no transaction writes no
\* report and leaves cid_next, the transaction, the ring, raw_response and
\* the UserDataState as they were.
C11_Cancel ==
  [][(call'.op = "poll" /\ call'.read.kind = "Ok" /\ IsCancel(call'.read.report)
        /\ panicked' = "" /\ result' = "Ok") =>
       IF IsSome(Transaction)
       THEN /\ ~IsSome(Transaction')
            /\ Len(out') = 1
            /\ ErrorFrame(out'[1], Slice(call'.read.report, 0, 4), 45)
       ELSE /\ out' = <<>>
            /\ device' = device]_vars

C11_Witness ==
  /\ PolledReport
  /\ IsCancel(call.read.report)
  /\ ~IsSome(Transaction)
  /\ Len(out) = 1
  /\ ErrorFrame(out[1], HostCid, 45)

IsContinuation(report) == CtapHidRequest_parse(report).ty = "MessageContinuation"

\* the continuation report is on the channel of the transaction t
OnChannelOf(t, report) == IsSome(t) /\ Unwrap(t).cid = Slice(report, 0, 4)

\* C12: a continuation report on the channel of the transaction whose
\* sequence number is not the one the transaction expects is answered, when
\* write_report accepts the answer, with the error report INVALID_SEQ (code
\* 4) on that channel, and no transaction exists after the poll.
C12_InvalidSeqAborts ==
  [][(call'.op = "poll" /\ call'.read.kind = "Ok" /\ IsContinuation(call'.read.report)
        /\ OnChannelOf(Transaction, call'.read.report)
        /\ Unwrap(Transaction).request_sequence # call'.read.report[5]
        /\ panicked' = "" /\ result' = "Ok") =>
       /\ Len(out') >= 1
       /\ ErrorFrame(out'[1], Slice(call'.read.report, 0, 4), 4)
       /\ ~IsSome(Transaction')]_vars

\* C13: a continuation report read while there is no transaction, or on
\* another channel than the transaction's, is dropped: no report is written
\* on its channel, nothing changes when there is no transaction, and the
\* transaction keeps its cid, buffer, bytes written and expected sequence,
\* whatever the sequence number of the report.
C13_StrayContinuationIsDropped ==
  [][(call'.op = "poll" /\ call'.read.kind = "Ok" /\ IsContinuation(call'.read.report)
        /\ ~OnChannelOf(Transaction, call'.read.report)
        /\ panicked' = "" /\ result' = "Ok") =>
       /\ \A i \in 1..Len(out') : Slice(out'[i], 0, 4) # Slice(call'.read.report, 0, 4)
       /\ ~IsSome(Transaction) => (out' = <<>> /\ device' = device)
       /\ (IsSome(Transaction) /\ IsSome(Transaction')) =>
            RequestSide(Unwrap(Transaction')) = RequestSide(Unwrap(Transaction))]_vars

\* C14: a MSG or CBOR initialization report whose bcnt exceeds 7609, read
\* while there is no transaction, is answered, when write_report accepts the
\* answer, with the error report INVALID_LEN (code 3) on the channel of the
\* report, and no transaction exists after the poll.
C14_OversizeIsRejected ==
  [][(call'.op = "poll" /\ call'.read.kind = "Ok" /\ IsMessageInit(call'.read.report)
        /\ U16FromBe(Slice(call'.read.report, 5, 7)) > MAXIMUM_CTAPHID_MESSAGE
        /\ ~IsSome(Transaction)
        /\ panicked' = "" /\ result' = "Ok") =>
       /\ Len(out') >= 1
       /\ ErrorFrame(out'[1], Slice(call'.read.report, 0, 4), 3)
       /\ ~IsSome(Transaction')]_vars

IsUnknown(report) == CtapHidRequest_parse(report).ty = "Unknown"

\* C15: an initialization report with a command the parser does not know is
\* answered, when write_report accepts the answer, with the error report
\* INVALID_COMMAND (code 1) on the channel of the report; the transaction is
\* neither created, dropped nor changed on its request side by it, and the
\* UserDataState stays what it was (the stream of a response being sent may
\* go on).
C15_UnknownCommand ==
  [][(call'.op = "poll" /\ call'.read.kind = "Ok" /\ IsUnknown(call'.read.report)
        /\ panicked' = "" /\ result' = "Ok") =>
       /\ Len(out') >= 1
       /\ ErrorFrame(out'[1], Slice(call'.read.report, 0, 4), 1)
       /\ IsSome(Transaction') =>
            IsSome(Transaction) /\ RequestSide(Unwrap(Transaction')) = RequestSide(Unwrap(Transaction))
       /\ (IsSome(Transaction) /\ ~IsSome(Transaction')) => done'
       /\ ~IsSome(Transaction) => (Len(out') = 1 /\ user_data' = user_data)
       /\ user_data.state # "SendingResponse" => user_data' = user_data
       /\ user_data.state = "SendingResponse" =>
            \/ user_data' = UserDataState_None
            \/ /\ user_data'.state = "SendingResponse"
               /\ user_data'.data = user_data.data]_vars

C15_Witness ==
  /\ PolledReport
  /\ IsUnknown(call.read.report)
  /\ Len(out) >= 1
  /\ ErrorFrame(out[1], OtherCid, 1)
  /\ IsSome(Transaction)
  /\ user_data.state = "ReceivedRequest"

\* C16: a poll in which write_report returned WouldBlock, for the direct
\* response or for the Message response packet, neither panics nor resets:
\* it returns Ok, and the response packet stays prepared in the transaction
\* to be written by a later poll.
C16_WouldBlockIsRetried ==
  (call.op = "poll" /\ (call.direct_write = "WouldBlock" \/ call.message_write = "WouldBlock")) =>
    /\ panicked = ""
    /\ result = "Ok"
    /\ call.message_write = "WouldBlock" =>
         (IsSome(Transaction) /\ Unwrap(Transaction).response_ready_to_send)

\* a response packet is prepared in raw_response and its write has not yet
\* succeeded
PacketWaits == IsSome(Transaction) /\ Unwrap(Transaction).response_ready_to_send

\* C17: while a prepared Message response packet waits for its write, a poll
\* that does not drop the transaction leaves the 64 bytes as they are if the
\* write returns WouldBlock again, and writes exactly these bytes as the
\* packet if the write succeeds, whatever report the poll read.
C17_PreparedPacketIsKept ==
  [][(PacketWaits /\ call'.op = "poll" /\ panicked' = "" /\ result' = "Ok") =>
       /\ (IsSome(Transaction') /\ call'.message_write = "WouldBlock") =>
            raw_response' = raw_response
       /\ (call'.message_write = "Ok" /\ (IsSome(Transaction') \/ done')) =>
            (out' # <<>> /\ out'[Len(out')] = raw_response)]_vars

\* C18: a poll in which write_report returned Duplicate, for the direct
\* response or for the Message response packet, ends as if the write had
\* succeeded: it returns Ok without a panic, and after a Duplicate for the
\* response packet no packet waits any more (the transaction has advanced or
\* is dropped).
C18_DuplicateIsSuccess ==
  (call.op = "poll" /\ (call.direct_write = "Duplicate" \/ call.message_write = "Duplicate")) =>
    /\ panicked = ""
    /\ result = "Ok"
    /\ call.message_write = "Duplicate" => ~PacketWaits

\* C19: a poll in which read_report, the write of the direct response or the
\* write of the Message response packet failed with a USB error other than
\* WouldBlock and Duplicate does not panic: it returns Err(UsbError) with
\* no transaction, an empty ring and the UserDataState None.
C19_UsbErrorResets ==
  (call.op = "poll" /\ (call.read.kind = "Err" \/ call.direct_write = "Err"
                           \/ call.message_write = "Err")) =>
    /\ panicked = ""
    /\ result = "Err"
    /\ ~IsSome(Transaction)
    /\ outgoing = NoData
    /\ user_data = UserDataState_None

\* C20: right after a poll that returned Err(UsbError) there is no
\* transaction, the ring of response bytes is empty and the UserDataState
\* is None.
C20_ErrLeavesNothing ==
  (call.op = "poll" /\ result = "Err") =>
    /\ in_progress_transaction_option = None
    /\ outgoing = NoData
    /\ user_data.state = "None"

\* the poll failed on the read while the continuation packet of a request
\* whose transaction it dropped was still to be read
C20_Witness ==
  /\ call.op = "poll"
  /\ call.read.kind = "Err"
  /\ result = "Err"
  /\ wire # <<>>
  /\ IsContinuation(Head(wire))
  /\ in_progress_transaction_option = None

\* nothing is left for poll to do: no prepared packet waits for its write,
\* the ring is empty and no chunk of a tunnelled response is asked for
NothingPending ==
  /\ ~PacketWaits
  /\ outgoing = NoData
  /\ ~(user_data.state = "SendingResponse" /\ user_data.pending_request)

\* C21: a poll whose read_report returns WouldBlock while nothing is pending
\* returns Ok, writes no report and leaves cid_next, the transaction, the
\* ring, raw_response and the UserDataState as they were.
C21_IdlePollIsNoOp ==
  [][(NothingPending /\ call'.op = "poll" /\ call'.read.kind = "WouldBlock") =>
       /\ panicked' = ""
       /\ result' = "Ok"
       /\ out' = <<>>
       /\ device' = device]_vars

C21_Witness ==
  /\ call.op = "poll"
  /\ call.read.kind = "WouldBlock"
  /\ NothingPending
  /\ out = <<>>
  /\ IsSome(Transaction)
  /\ user_data.state = "SendingResponse"

\* C22: the Message response frames written for one transaction are one
\* initialization frame (command 0x83 or 0x90) followed by continuation
\* frames with the sequence numbers 0, 1, 2, ... in order, also when writes
\* returned WouldBlock in between.
C22_FramesInSequence ==
  \A i \in 1..Len(received.frames) :
     IF i = 1
     THEN received.frames[i] \in {131, 144}
     ELSE received.frames[i] = i - 2

\* C23: when the final packet of a transaction has been written, the bcnt of
\* the initialization frame of its response is the number of response bytes
\* staged for that transaction.
C23_BcntIsTheResponseLength == done => received.bcnt = Len(produced)

\* the report completes a message of at most 57 bytes with command cmd,
\* read while there is no transaction
OneFrameMessage(report, cmd) ==
  /\ IsMessageInit(report)
  /\ report[5] = 128 + cmd
  /\ U16FromBe(Slice(report, 5, 7)) <= INIT_DATA_LEN
  /\ ~IsSome(Transaction)

\* the one Message response frame that carries body
OneFrameResponse(cid, cmd, body) ==
  cid \o <<128 + cmd>> \o U16ToBe(Len(body)) \o Pad(body, INIT_DATA_LEN)

U2fMessageOf(report) ==
  U2fRequest_decode(Slice(report, 7, 7 + U16FromBe(Slice(report, 5, 7))))

\* C25: a complete U2F message with INS 3 gets the 8 bytes "U2F_V2" 90 00
\* staged as its response and leaves the UserDataState as it was; when the
\* ring held nothing before and the write of the packet succeeds, the poll
\* writes exactly one frame, the Message response with command 0x83, bcnt 8
\* and these bytes, and the transaction is over.
C25_Version ==
  [][(call'.op = "poll" /\ call'.read.kind = "Ok"
        /\ OneFrameMessage(call'.read.report, 3)
        /\ U2fMessageOf(call'.read.report).ty = "Version"
        /\ panicked' = "" /\ result' = "Ok") =>
       /\ produced' = <<85, 50, 70, 95, 86, 50, 144, 0>>
       /\ user_data' = user_data
       /\ (outgoing = NoData /\ call'.message_write = "Ok") =>
            /\ out' = <<OneFrameResponse(Slice(call'.read.report, 0, 4), 3,
                                          <<85, 50, 70, 95, 86, 50, 144, 0>>)>>
            /\ ~IsSome(Transaction')]_vars

C25_Witness ==
  /\ PolledReport
  /\ OneFrameMessage(call.read.report, 3)
  /\ U2fMessageOf(call.read.report).ty = "Version"
  /\ out = <<OneFrameResponse(HostCid, 3, <<85, 50, 70, 95, 86, 50, 144, 0>>)>>
  /\ user_data.state = "ReceivingRequest"

\* the continuation report is the one that completes the request of the
\* transaction: on its channel, with the sequence number it expects, and
\* with the last bytes it waits for
Completes(report) ==
  /\ IsContinuation(report)
  /\ OnChannelOf(Transaction, report)
  /\ Unwrap(Transaction).request_sequence = CtapHidRequest_parse(report).sequence
  /\ Unwrap(Transaction).request_payload_bytes_written
       < Unwrap(Transaction).request_payload_size
  /\ Unwrap(Transaction).request_payload_bytes_written + CONT_DATA_LEN
       >= Unwrap(Transaction).request_payload_size

\* the request that report completes
RequestCompleted(report) ==
  Slice(Unwrap(Transaction).request_buffer \o CtapHidRequest_parse(report).data,
        0, Unwrap(Transaction).request_payload_size)

\* C26: a complete U2F message with INS 2 and P1 = 7 (CheckOnly) gets the
\* two bytes 69 85 staged as its response, whatever the UserDataState is,
\* and leaves the UserDataState as it was, so that no byte of its key handle
\* reaches check_pending_request; when the ring held nothing before and the
\* write of the packet succeeds, the poll writes exactly one frame, the
\* Message response with command 0x83, bcnt 2 and these bytes.
C26_CheckOnly ==
  [][(call'.op = "poll" /\ call'.read.kind = "Ok"
        /\ Completes(call'.read.report)
        /\ Unwrap(Transaction).message_type = "U2f"
        /\ RequestCompleted(call'.read.report)[2] = 2
        /\ RequestCompleted(call'.read.report)[3] = 7
        /\ panicked' = "" /\ result' = "Ok") =>
       /\ produced' = <<105, 133>>
       /\ user_data' = user_data
       /\ (outgoing = NoData /\ call'.message_write = "Ok") =>
            /\ out' = <<OneFrameResponse(Slice(call'.read.report, 0, 4), 3, <<105, 133>>)>>
            /\ ~IsSome(Transaction')]_vars

C26_Witness ==
  /\ PolledReport
  /\ call.read.report = HostPacket(HostCid, 3, AuthenticateApdu(7, AcceptedOrigin, FinalChunk), 1)
  /\ out = <<OneFrameResponse(HostCid, 3, <<105, 133>>)>>
  /\ user_data.state = "SendingResponse"
  /\ ~IsSome(Transaction)

\* the bytes the tunnel puts into the next Authenticate response: the 4-byte
\* length of the response before its first bytes, then the bytes not sent
\* yet, as many as the two slots hold; a chunk that is only acknowledged
\* gets the length 0
TunneledBytes ==
  IF user_data.state = "SendingResponse"
  THEN Take((IF user_data.bytes_sent = 0 THEN U32ToBe(Len(user_data.data)) ELSE NoData)
              \o Slice(user_data.data, user_data.bytes_sent, Len(user_data.data)),
            2 * SLOT_LEN)
  ELSE U32ToBe(0)

\* the two slots of the signature in an Authenticate response
SlotsOf(authenticate) == Slice(authenticate, 10, 41) \o Slice(authenticate, 44, 75)

\* C27: a poll that stages an Authenticate response with a signature stages
\* 77 bytes: user presence 1, counter 0 in 4 bytes, the 70-byte signature
\* 30 44 02 20 7f, 31 slot bytes, 02 20 7f, 31 slot bytes, and the status
\* 90 00; the 62 slot bytes are the tunneled bytes in their order followed
\* by zeros.
C27_SignatureLayout ==
  [][(call'.op = "poll" /\ panicked' = "" /\ produced' # produced /\ Len(produced') > 7) =>
       /\ Len(produced') = 77
       /\ Slice(produced', 0, 5) = <<1, 0, 0, 0, 0>>
       /\ Slice(produced', 5, 10) = <<48, 68, 2, 32, 127>>
       /\ Slice(produced', 41, 44) = <<2, 32, 127>>
       /\ Slice(produced', 75, 77) = <<144, 0>>
       /\ SlotsOf(produced') = TunneledBytes \o Zeros(2 * SLOT_LEN - Len(TunneledBytes))]_vars

C27_Witness ==
  /\ call.op = "poll"
  /\ Len(produced) = 77
  /\ response = Some([i \in 1..121 |-> i])
  /\ user_data.state = "None"
  /\ SlotsOf(produced) = <<121>> \o Zeros(61)

\* whether the response is written as a continuation packet
IsContinuationResponse(r) == r.ty = "Message" /\ r.continuation_state # Initial

\* the request d that parse reads is the response r that was encoded: same
\* channel, same kind of frame, same command, same bcnt or sequence number,
\* same payload up to the zero padding
RoundTrips(r, d) ==
  /\ d.cid = r.cid
  /\ (d.ty = "MessageContinuation") <=> IsContinuationResponse(r)
  /\ CASE r.ty = "Init" ->
             d.ty = "Init" /\ d.cmd = 6 /\ d.data = r.of.nonce_8_bytes
        [] r.ty = "Message" /\ r.continuation_state = Initial ->
             /\ d.ty = "MessageInitial"
             /\ d.message_type = r.of.ty
             /\ d.cmd = MessageCmd(r.of.ty) % 128
             /\ d.length = r.of.length
             /\ d.data = Pad(r.of.data, INIT_DATA_LEN)
        [] r.ty = "Message" /\ r.continuation_state # Initial ->
             /\ d.sequence = r.continuation_state
             /\ d.data = Pad(r.of.data, CONT_DATA_LEN)
        [] r.ty = "RawReport" -> d = CtapHidRequest_parse(r.of)
        [] r.ty = "Error" -> d.ty = "Unknown" /\ d.cmd = 63

\* C28: what CtapHidRequest::parse reads from the report that
\* CtapHidResponse::encode wrote is the response that was encoded, for the
\* Init, Message (initialization and continuation), RawReport and Error
\* responses: channel, kind of frame, command, bcnt or sequence number and
\* payload are the same, up to the zero padding of the payload.
C28_RoundTrip == codec.step = "parsed" => RoundTrips(codec.response, codec.decoded)

\* the same for the responses other than Error
C28_RoundTripButError ==
  (codec.step = "parsed" /\ codec.response.ty # "Error") =>
    RoundTrips(codec.response, codec.decoded)

\* C29: while a transaction exists, the bytes written of its request are
\* at least 0 and at most the payload size, and the payload size is at most
\* 7609.
C29_BytesWrittenInBounds ==
  IsSome(Transaction) =>
    /\ 0 <= Unwrap(Transaction).request_payload_bytes_written
    /\ Unwrap(Transaction).request_payload_bytes_written
         <= Unwrap(Transaction).request_payload_size
    /\ Unwrap(Transaction).request_payload_size <= MAXIMUM_CTAPHID_MESSAGE

\* the INIT response frame: command 0x86, bcnt 17, the nonce at bytes 7..15,
\* the channel id at bytes 15..19, protocol version 2 at byte 20, zeros for
\* the device version and the capabilities
InitFrame(cid, nonce8, channel) ==
  cid \o <<134, 0, 17>> \o nonce8 \o U32ToBe(channel) \o <<0, 2, 0, 0, 0, 0>>
    \o Zeros(PACKET_LEN - 25)

\* C30: an INIT report is answered, when write_report accepts the answer,
\* with the INIT response frame on the channel of the report, carrying the
\* nonce of the report and the channel id cid_next + 1, which becomes
\* cid_next; the INIT neither starts nor aborts a transaction nor changes
\* the request a transaction has received, and it leaves the UserDataState
\* as it was (a response stream may advance in the same poll).
C30_Init ==
  [][(call'.op = "poll" /\ call'.read.kind = "Ok" /\ IsInit(call'.read.report)
        /\ panicked' = "" /\ result' = "Ok") =>
       /\ Len(out') >= 1
       /\ out'[1] = InitFrame(Slice(call'.read.report, 0, 4),
                              Slice(call'.read.report, 7, 15), cid_next + 1)
       /\ cid_next' = cid_next + 1
       /\ IsSome(Transaction') =>
            IsSome(Transaction) /\ RequestSide(Unwrap(Transaction')) = RequestSide(Unwrap(Transaction))
       /\ (IsSome(Transaction) /\ ~IsSome(Transaction')) => done'
       /\ user_data.state # "SendingResponse" => user_data' = user_data
       /\ user_data.state = "SendingResponse" =>
            \/ user_data' = UserDataState_None
            \/ /\ user_data'.state = "SendingResponse"
               /\ user_data'.data = user_data.data]_vars

C30_Witness ==
  /\ PolledReport
  /\ call.read.report = InitPacket
  /\ out = <<InitFrame(BroadcastCid, <<1, 2, 3, 4, 5, 6, 7, 8>>, 2)>>
  /\ cid_next = 2
  /\ IsSome(Transaction)
  /\ user_data.state = "ReceivedRequest"

\* the continuation report is accepted into the request of the transaction:
\* on its channel, with the sequence number it expects, while the request
\* is incomplete
Accepted(report) ==
  /\ IsContinuation(report)
  /\ OnChannelOf(Transaction, report)
  /\ Unwrap(Transaction).request_sequence = CtapHidRequest_parse(report).sequence
  /\ Unwrap(Transaction).request_payload_bytes_written
       < Unwrap(Transaction).request_payload_size

\* the payload bytes received with the accepted report included
ReceivedWith(report) ==
  Unwrap(Transaction).request_buffer \o CtapHidRequest_parse(report).data

\* C31: the request passed to the CBOR or U2F handler is the first bcnt
\* bytes of the 57 payload bytes of the initialization report followed by
\* the 59 payload bytes of each accepted continuation report in the order
\* of acceptance, and it is passed in the poll in which the bytes received
\* reach bcnt, not before: by the poll of the initialization report when
\* bcnt <= 57.  While the request is incomplete the k-th accepted
\* continuation report is the one with sequence k - 1.
C31_RequestIsTheFramesInOrder ==
  /\ [][(call'.op = "poll" /\ call'.read.kind = "Ok" /\ IsMessageInit(call'.read.report)
          /\ ~IsSome(Transaction) /\ panicked' = "") =>
         LET bcnt == U16FromBe(Slice(call'.read.report, 5, 7))
             data == Slice(call'.read.report, 7, PACKET_LEN)
         IN IF bcnt <= INIT_DATA_LEN
            THEN handed' = <<HandedOver(CtapHidRequest_parse(call'.read.report).message_type,
                                        Slice(data, 0, bcnt))>>
            ELSE /\ handed' = <<>>
                 /\ result' = "Ok" =>
                      /\ IsSome(Transaction')
                      /\ Unwrap(Transaction').request_buffer = data
                      /\ Unwrap(Transaction').request_sequence = 0]_vars
  /\ [][(call'.op = "poll" /\ call'.read.kind = "Ok" /\ Accepted(call'.read.report)
          /\ panicked' = "") =>
         LET bcnt == Unwrap(Transaction).request_payload_size
         IN IF Len(ReceivedWith(call'.read.report)) >= bcnt
            THEN handed' = <<HandedOver(Unwrap(Transaction).message_type,
                                        Slice(ReceivedWith(call'.read.report), 0, bcnt))>>
            ELSE /\ handed' = <<>>
                 /\ result' = "Ok" =>
                      /\ IsSome(Transaction')
                      /\ Unwrap(Transaction').request_buffer = ReceivedWith(call'.read.report)
                      /\ Unwrap(Transaction').request_sequence
                           = Unwrap(Transaction).request_sequence + 1]_vars
  /\ []((IsSome(Transaction)
          /\ Unwrap(Transaction).request_payload_bytes_written
               < Unwrap(Transaction).request_payload_size) =>
         Len(Unwrap(Transaction).request_buffer)
           = INIT_DATA_LEN + CONT_DATA_LEN * Unwrap(Transaction).request_sequence)

\* the chunk that the completing report hands to the tunnel: the key handle
\* of an Authenticate request of an accepted origin that is not CheckOnly,
\* <<>> if the request is none
ChunkCompleted(report) ==
  LET r == U2fRequest_decode(RequestCompleted(report))
  IN IF /\ Unwrap(Transaction).message_type = "U2f"
        /\ r.ty = "Authenticate"
        /\ r.control # "CheckOnly"
        /\ web_origin_filter(r.application_parameter)
     THEN r.key_handle
     ELSE NoData

\* an Authenticate response (user presence 1, counter 0, status 90 00) whose
\* signature carries nothing: no signature bytes, or the two slots zero
EmptySignature(authenticate) ==
  /\ Len(authenticate) \in {7, 77}
  /\ Slice(authenticate, 0, 5) = <<1, 0, 0, 0, 0>>
  /\ Slice(authenticate, Len(authenticate) - 2, Len(authenticate)) = <<144, 0>>
  /\ Len(authenticate) = 77 =>
       /\ Slice(authenticate, 5, 10) = <<48, 68, 2, 32, 127>>
       /\ Slice(authenticate, 41, 44) = <<2, 32, 127>>
       /\ SlotsOf(authenticate) = Zeros(2 * SLOT_LEN)

\* C32: a chunk with header 0 handed to the tunnel in state None or
\* ReceivingRequest gets an Authenticate response with an empty signature
\* staged, and leaves the state ReceivingRequest with the chunk body
\* appended to what was buffered; check_pending_request returns None in
\* state ReceivingRequest.
C32_InitialChunkIsBuffered ==
  /\ [][(call'.op = "poll" /\ call'.read.kind = "Ok" /\ Completes(call'.read.report)
          /\ ChunkCompleted(call'.read.report) # NoData
          /\ ChunkCompleted(call'.read.report)[1] = 0
          /\ user_data.state \in {"None", "ReceivingRequest"}
          /\ panicked' = "" /\ result' = "Ok") =>
         /\ EmptySignature(produced')
         /\ user_data' = UserData("ReceivingRequest",
                                  user_data.data \o Tail(ChunkCompleted(call'.read.report)),
                                  0, FALSE)]_vars
  /\ [][(call'.op = "check_pending_request" /\ user_data.state = "ReceivingRequest") =>
         pending' = None /\ user_data' = user_data]_vars

C32_Witness ==
  /\ call.op = "check_pending_request"
  /\ pending = None
  /\ user_data = UserData("ReceivingRequest", ChunkBody \o ChunkBody, 0, FALSE)

\* the chunk a request passed to the U2F handler brings to the tunnel: the
\* key handle of an Authenticate request of an accepted origin that is not
\* CheckOnly, <<>> if the request is none
ChunkOf(h) ==
  LET r == U2fRequest_decode(h.request)
  IN IF /\ h.ty = "U2f"
        /\ r.ty = "Authenticate"
        /\ r.control # "CheckOnly"
        /\ web_origin_filter(r.application_parameter)
     THEN r.key_handle
     ELSE NoData

\* the requests passed to the handler bring a chunk with header 1
Requested(requests) ==
  \E i \in 1..Len(requests) : ChunkOf(requests[i]) # NoData /\ ChunkOf(requests[i])[1] = 1

\* the UserDataState after the next response chunk of the stream: the bytes
\* carried are counted, the request for them is cleared, and the stream is
\* over when nothing is left
StreamAfter ==
  LET carries == Len(TunneledBytes) - (IF user_data.bytes_sent = 0 THEN 4 ELSE 0)
  IN IF user_data.bytes_sent + carries >= Len(user_data.data)
     THEN UserDataState_None
     ELSE [user_data EXCEPT !.bytes_sent = @ + carries, !.pending_request = FALSE]

\* C33: a poll in state SendingResponse that finds pending_request set (by
\* send_response) or passes an accepted chunk with header 1 to the tunnel
\* stages exactly one Authenticate response, which carries the
\* next unsent bytes of the response (at most 62 with the length that
\* precedes the first ones), advances bytes_sent by the bytes carried and
\* leaves pending_request clear; every other poll in state SendingResponse
\* stages no response chunk and leaves the state as it is.
C33_OneChunkPerRequest ==
  [][(call'.op = "poll" /\ user_data.state = "SendingResponse"
        /\ panicked' = "" /\ result' = "Ok") =>
       IF (user_data.pending_request /\ IsSome(Transaction)) \/ Requested(handed')
       THEN /\ Len(produced') = 77
            /\ SlotsOf(produced') = TunneledBytes \o Zeros(2 * SLOT_LEN - Len(TunneledBytes))
            /\ user_data' = StreamAfter
       ELSE /\ user_data' = user_data
            /\ produced' # produced => Len(produced') < 77]_vars

C33_Witness ==
  /\ PolledReport
  /\ call.read.report = HostPacket(HostCid, 3, AuthenticateApdu(8, AcceptedOrigin, PollChunk), 1)
  /\ user_data = UserData("SendingResponse", [i \in 1..121 |-> i], 120, FALSE)
  /\ SlotsOf(produced) = [i \in 1..62 |-> 58 + i]

\* the continuation report has the sequence number the transaction expects,
\* on its channel, and the request of the transaction is complete already
Repeats(report) ==
  /\ IsContinuation(report)
  /\ OnChannelOf(Transaction, report)
  /\ Unwrap(Transaction).request_sequence = CtapHidRequest_parse(report).sequence
  /\ Unwrap(Transaction).request_payload_bytes_written
       >= Unwrap(Transaction).request_payload_size

\* C39: a continuation report with the expected sequence number on the
\* channel of a transaction whose request is complete already passes no
\* request to the handler: nothing is handed over, no response is staged,
\* the UserDataState is as before, and the tunnel does not panic over a
\* chunk it was given twice.
C39_HandedOverOnce ==
  [][(call'.op = "poll" /\ call'.read.kind = "Ok" /\ Repeats(call'.read.report)) =>
       /\ panicked' \notin TunnelMisusePanics
       /\ (panicked' = "" /\ result' = "Ok") =>
            /\ handed' = <<>>
            /\ produced' = ProducedNow
            /\ user_data.state # "SendingResponse" => user_data' = user_data]_vars

\* the poll staged a response chunk and the chunks staged so far carry the
\* whole response
LastChunkStaged ==
  /\ carried'.count = carried.count + 1
  /\ Len(carried'.bytes) >= Len(user_data.data)

\* in SendingResponse no more bytes are sent than the response has, and when
\* all are sent the state is left at once: only a response that still waits
\* for its first chunk can have nothing left to send
SendingInBounds ==
  user_data.state = "SendingResponse" =>
    /\ user_data.bytes_sent <= Len(user_data.data)
    /\ user_data.bytes_sent >= Len(user_data.data) =>
         user_data.data = NoData /\ user_data.pending_request

\* C34, as the specification states it: in SendingResponse bytes_sent is at
\* most the length of the response, and the state is left for None exactly
\* when bytes_sent has reached the length: never while bytes remain unsent,
\* and in the poll that stages the last chunk.
C34_LeftWhenAllSent ==
  /\ []SendingInBounds
  /\ [][(user_data.state = "SendingResponse" /\ panicked' = "") =>
          IF call'.op = "poll"
          THEN user_data'.state # "SendingResponse" <=> LastChunkStaged
          ELSE user_data' = user_data]_vars

\* C34, amended: the state is also left, with bytes unsent, by a call that
\* resets all state after a USB error.
C34_LeftWhenAllSentOrReset ==
  /\ []SendingInBounds
  /\ [][(user_data.state = "SendingResponse" /\ panicked' = "") =>
          IF call'.op = "poll"
          THEN user_data'.state # "SendingResponse"
                 <=> (LastChunkStaged \/ result' = "Err")
          ELSE user_data' = user_data]_vars

C34_Witness ==
  /\ PolledReport
  /\ call.read.report = HostPacket(HostCid, 3, AuthenticateApdu(8, AcceptedOrigin, PollChunk), 1)
  /\ response = Some([i \in 1..121 |-> i])
  /\ user_data = UserDataState_None
  /\ SlotsOf(produced) = <<121>> \o Zeros(61)

\* the transaction has a response that is being emitted: a packet of it
\* waits for its write, or bytes of it are in the ring
Emitting == IsSome(Transaction) /\ (PacketWaits \/ outgoing # NoData)

\* the poll wrote, as its last report, the final packet of the transaction:
\* a report on the channel of the transaction after which the ring is empty,
\* and if a packet was waiting, that packet, which was marked final
FinalPacketWritten ==
  /\ call'.op = "poll"
  /\ call'.message_write = "Ok"
  /\ out' # <<>>
  /\ Slice(out'[Len(out')], 0, 4) = Unwrap(Transaction).cid
  /\ outgoing' = NoData
  /\ PacketWaits =>
       /\ Unwrap(Transaction).response_final_packet_is_ready_to_send
       /\ out'[Len(out')] = raw_response

\* C35: a transaction whose response is being emitted is dropped, other
\* than by a CANCEL report or a reset, only by a poll that wrote its final
\* packet; a poll in which the write of the waiting packet returns
\* WouldBlock keeps the transaction, and answers a MSG initialization
\* report it read with the error report CHANNEL_BUSY.
C35_DroppedAfterFinalWrite ==
  /\ [][(Emitting /\ ~IsSome(Transaction') /\ panicked' = "" /\ result' = "Ok"
           /\ ~(call'.read.kind = "Ok" /\ IsCancel(call'.read.report))) =>
          FinalPacketWritten]_vars
  /\ [][(PacketWaits /\ call'.op = "poll" /\ call'.message_write = "WouldBlock"
           /\ panicked' = "" /\ result' = "Ok") =>
          /\ (call'.read.kind = "Ok" /\ IsCancel(call'.read.report)) \/ IsSome(Transaction')
          /\ (call'.read.kind = "Ok" /\ IsMessageInit(call'.read.report)) =>
               (out' # <<>> /\ BusyError(out'[1], Slice(call'.read.report, 0, 4)))]_vars

\* C36: whenever there is no transaction the ring of response bytes is
\* empty, so that no byte staged for a transaction that was cancelled or has
\* finished is left to be emitted in the response of a later one.
C36_RingEmptyWithoutTransaction ==
  (panicked = "" /\ ~IsSome(Transaction)) => outgoing = NoData

\* the panics of the accumulation of the tunnel request
AccumulationPanics ==
  { "ArrayVec::extend beyond capacity",
    "request[0] out of range" }

\* C40: the request the tunnel accumulates is never longer than
\* MAX_MESSAGE_LEN and accumulating it never panics, neither when the chunk
\* bodies together exceed MAX_MESSAGE_LEN nor when an accepted Authenticate
\* request has a key handle of length zero.
C40_AccumulationNeverPanics ==
  /\ user_data.state \in {"ReceivingRequest", "ReceivedRequest"} =>
       Len(user_data.data) <= MAX_MESSAGE_LEN
  /\ panicked \notin AccumulationPanics

\* the panics of the request buffer: the copy of the data of a report, and
\* the slice that is handed on
RequestBufferPanics ==
  { "request_buffer copy out of range",
    "request_buffer slice out of range" }

\* C38: whatever reports are read, the copy of the data of a report into the
\* request buffer stays within its 7609 bytes: the bytes written never
\* exceed 7609, and neither the copy nor the slice of the complete request
\* panics.
C38_CopyStaysInBuffer ==
  /\ panicked \notin RequestBufferPanics
  /\ IsSome(Transaction) =>
       /\ Len(Unwrap(Transaction).request_buffer) <= MAXIMUM_CTAPHID_MESSAGE
       /\ Unwrap(Transaction).request_payload_bytes_written <= MAXIMUM_CTAPHID_MESSAGE

\* the buffer is full: 57 bytes of the initialization report and 59 bytes
\* of each of the 128 continuation reports
C38_Witness ==
  /\ PolledReport
  /\ IsContinuation(call.read.report)
  /\ IsSome(Transaction)
  /\ Unwrap(Transaction).request_payload_size = 65535
  /\ Unwrap(Transaction).request_sequence = 128
  /\ Unwrap(Transaction).request_payload_bytes_written = MAXIMUM_CTAPHID_MESSAGE

\* the response of the transaction has reached the host whole, and the
\* transaction is dropped
Delivered == done /\ ~IsSome(Transaction) /\ received.bytes = produced

\* the poll gave the transaction up: it read CANCEL, or it reset all state
\* after a USB error
Abandoned ==
  /\ call.op = "poll"
  /\ result = "Err" \/ (call.read.kind = "Ok" /\ IsCancel(call.read.report))

\* C37: when poll is called again and again and write_report does not
\* return WouldBlock for ever, a transaction whose response is staged is
\* eventually dropped with every staged byte written to the host, unless a
\* CANCEL report or a USB error ends it first; with no transaction left the
\* next MSG initialization report is accepted.
C37_ResponseIsEventuallyWritten == Emitting ~> (Delivered \/ Abandoned)

====
